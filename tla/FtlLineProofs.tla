---------------------------- MODULE FtlLineProofs ----------------------------
(* The bookkeeping of the lines: the lists, their counters and the pos      *)
(* field say where each line is, the valid and invalid page counts of lines *)
(* and blocks are those of their pages, a queued victim can be cleaned with *)
(* profit, and the write pointer never runs out of lines if the host leaves *)
(* space unwritten, for every geometry, every threshold and every host.     *)
(*                                                                          *)
(* That a line is in one place and that a cleaned block is erased are parts *)
(* of the invariant of FtlProofs; what is added here counts.  The counts    *)
(* decide between the full list and the victim queue and choose the victim. *)
(* They are not set from the pages but moved by one with each page, and     *)
(* zeroed with each block and line: the argument is that a page is counted  *)
(* in its line and its block, and in no other.                              *)
EXTENDS FtlProofs, FiniteSetTheorems

-----------------------------------------------------------------------------
(* The lists and their counters *)

(* The counters are the sizes of the lists, and pos tells a queued line. *)
SizesInv ==
  /\ free_line_cnt = Len(free_line_list)
  /\ victim_line_cnt = Cardinality(victim_line_pq)
  /\ full_line_cnt = Cardinality(full_line_list)
  /\ \A l \in Line : line_pos[l] <=> l \in victim_line_pq

LEMMA LinesFinite == \A S \in SUBSET Line : IsFiniteSet(S) /\ Cardinality(S) \in Nat
  <1> SUFFICES ASSUME NEW S \in SUBSET Line
               PROVE  IsFiniteSet(S) /\ Cardinality(S) \in Nat
    OBVIOUS
  <1>1. IsFiniteSet(Line)
    BY GeometryAssumption, FS_Interval DEF Line
  <1>2. IsFiniteSet(S)
    BY <1>1, FS_Subset
  <1> QED
    BY <1>2, FS_CardinalityType

LEMMA Joins ==
  ASSUME NEW S \in SUBSET Line, NEW l \in Line, l \notin S
  PROVE  Cardinality(S \union {l}) = Cardinality(S) + 1
  BY LinesFinite, FS_AddElement

LEMMA Leaves ==
  ASSUME NEW S \in SUBSET Line, NEW l \in S
  PROVE  Cardinality(S \ {l}) = Cardinality(S) - 1
  BY LinesFinite, FS_RemoveElement

(* pos is set or cleared for line x alone. *)
LEMMA PosMoves ==
  ASSUME NEW f \in [Line -> BOOLEAN], NEW x \in Line, NEW b \in BOOLEAN,
         NEW g, g = [f EXCEPT ![x] = b]
  PROVE  (g[x] <=> b) /\ \A l \in Line : l # x => (g[l] <=> f[l])
  OBVIOUS

(* A line is queued: pos follows. *)
LEMMA PosQueued ==
  ASSUME TypeOK, NEW x \in Line, \A l \in Line : line_pos[l] <=> l \in victim_line_pq,
         victim_line_pq' = victim_line_pq \union {x},
         line_pos' = [line_pos EXCEPT ![x] = TRUE]
  PROVE  \A l \in Line : line_pos'[l] <=> l \in victim_line_pq'
  <1>1. line_pos \in [Line -> BOOLEAN]
    BY DEF TypeOK
  <1>2. (line_pos'[x] <=> TRUE) /\ \A l \in Line : l # x => (line_pos'[l] <=> line_pos[l])
    BY <1>1, PosMoves
  <1> QED
    BY <1>2

(* A line leaves the queue: pos follows. *)
LEMMA PosPopped ==
  ASSUME TypeOK, NEW x \in Line, \A l \in Line : line_pos[l] <=> l \in victim_line_pq,
         victim_line_pq' = victim_line_pq \ {x},
         line_pos' = [line_pos EXCEPT ![x] = FALSE]
  PROVE  \A l \in Line : line_pos'[l] <=> l \in victim_line_pq'
  <1>1. line_pos \in [Line -> BOOLEAN]
    BY DEF TypeOK
  <1>2. (line_pos'[x] <=> FALSE) /\ \A l \in Line : l # x => (line_pos'[l] <=> line_pos[l])
    BY <1>1, PosMoves
  <1> QED
    BY <1>2

LEMMA SizesInit == Init => SizesInv
  <1> SUFFICES ASSUME Init PROVE SizesInv
    OBVIOUS
  <1>1. Len(free_line_list) = blks_per_pl - 1
    BY GeometryAssumption DEF Init, ssd_init_write_pointer
  <1>2. Cardinality({}) = 0
    BY FS_EmptySet
  <1> QED
    BY <1>1, <1>2 DEF Init, ssd_init_lines, ssd_init_write_pointer, SizesInv

(* The lists change when a line is used up and the next one taken ... *)
LEMMA AdvanceSizes ==
  ASSUME FtlInv, SizesInv, pc # "oops", ssd_advance_write_pointer
  PROVE  SizesInv'
  <1>1. /\ TypeOK /\ free_line_list \in Seq(Line)
        /\ victim_line_pq \in SUBSET Line /\ full_line_list \in SUBSET Line
        /\ free_line_cnt \in Int
    BY DEF FtlInv, TypeInv, TypeOK
  <1> DEFINE cur == wp.curline
  <1>2. cur \in Line /\ cur \notin victim_line_pq /\ cur \notin full_line_list
    BY NewPage DEF FtlInv, LinesInv
  <1>3. CASE ~LastPage
    <2>1. UNCHANGED <<listVars, line_pos>>
      BY <1>3 DEF ssd_advance_write_pointer, LastLun, LastPage
    <2> QED
      BY <2>1 DEF SizesInv, listVars
  <1>4. CASE LastPage
    <2>1. RetireLine /\ get_next_free_line
      BY <1>4 DEF ssd_advance_write_pointer, LastPage, LastLun
    <2>2. free_line_cnt' = Len(free_line_list')
      <3>1. CASE free_line_list = <<>>
        BY <2>1, <3>1 DEF get_next_free_line, SizesInv
      <3>2. CASE free_line_list # <<>>
        <4>1. free_line_list' = Tail(free_line_list) /\ free_line_cnt' = free_line_cnt - 1
          BY <2>1, <3>2 DEF get_next_free_line
        <4>2. Len(Tail(free_line_list)) = Len(free_line_list) - 1
          BY <1>1, <3>2
        <4> QED
          BY <4>1, <4>2 DEF SizesInv
      <3> QED
        BY <3>1, <3>2
    <2>3. CASE line_vpc'[cur] = pgs_per_line
      <3>1. /\ full_line_list' = full_line_list \union {cur}
            /\ full_line_cnt' = full_line_cnt + 1
            /\ UNCHANGED <<victim_line_pq, victim_line_cnt, line_pos>>
        BY <2>1, <2>3 DEF RetireLine
      <3>2. Cardinality(full_line_list') = Cardinality(full_line_list) + 1
        BY <1>1, <1>2, <3>1, Joins
      <3> QED
        BY <2>2, <3>1, <3>2 DEF SizesInv
    <2>4. CASE line_vpc'[cur] # pgs_per_line
      <3>1. /\ victim_line_pq' = victim_line_pq \union {cur}
            /\ victim_line_cnt' = victim_line_cnt + 1
            /\ line_pos' = [line_pos EXCEPT ![cur] = TRUE]
            /\ UNCHANGED <<full_line_list, full_line_cnt>>
        BY <2>1, <2>4 DEF RetireLine
      <3>2. Cardinality(victim_line_pq') = Cardinality(victim_line_pq) + 1
        BY <1>1, <1>2, <3>1, Joins
      <3>3. \A l \in Line : line_pos'[l] <=> l \in victim_line_pq'
        BY <1>1, <1>2, <3>1, PosQueued DEF SizesInv
      <3> QED
        BY <2>2, <3>1, <3>2, <3>3 DEF SizesInv
    <2> QED
      BY <2>3, <2>4
  <1> QED
    BY <1>3, <1>4

(* ... when an invalidated page makes a victim of a full line ... *)
LEMMA InvalidateSizes ==
  ASSUME FtlInv, SizesInv, InvalidateOld
  PROVE  SizesInv'
  <1>1. /\ TypeOK /\ LinesInv /\ PagesInv /\ MapInv /\ pc = "invalidate"
        /\ victim_line_pq \in SUBSET Line /\ full_line_list \in SUBSET Line
        /\ maptbl \in [Lpn -> Ppa \union {UNMAPPED_PPA}] /\ lpn \in Lpn
    BY DEF FtlInv, TypeInv, TypeOK, InvalidateOld
  <1> DEFINE old == maptbl[lpn]
             line == old.blk
  <1>2. CASE old = UNMAPPED_PPA
    <2>1. UNCHANGED <<lineVars, listVars>>
      BY <1>2 DEF InvalidateOld
    <2> QED
      BY <2>1 DEF SizesInv, lineVars, listVars
  <1>3. CASE old # UNMAPPED_PPA
    <2>1. /\ old \in Ppa /\ line \in Line /\ pg_status[old] = "PG_VALID"
          /\ mark_page_invalid(old)
      BY <1>1, <1>3 DEF MapInv, MappingConsistent, Ppa, InvalidateOld
    <2>2. /\ UNCHANGED <<free_line_list, free_line_cnt>>
      BY <2>1 DEF mark_page_invalid
    <2>3. CASE line_vpc[line] # pgs_per_line
      <3>1. UNCHANGED <<full_line_list, full_line_cnt, victim_line_pq, victim_line_cnt, line_pos>>
        BY <2>1, <2>3 DEF mark_page_invalid
      <3> QED
        BY <2>2, <3>1 DEF SizesInv
    <2>4. CASE line_vpc[line] = pgs_per_line
      <3>1. FullToVictim(line)
        BY <2>1, <2>4 DEF mark_page_invalid
      <3>2. line \in full_line_list /\ line \notin victim_line_pq
        <4>1. line \notin FreeLines /\ gc.victim = NULL /\ NULL \notin Line
          BY <1>1, <2>1, NullAssumption DEF PagesInv, FtlInv, TypeInv, Cursors, NoGc
        <4>2. Idx(wp) \in Nat /\ Idx(wp) < pgs_per_line /\ pgs_per_line \in Nat
          BY IdxRange, Sizes DEF FtlInv
        <4>3. line # wp.curline /\ line \notin victim_line_pq
          BY <1>1, <2>1, <2>4, <4>2 DEF LinesInv
        <4> QED
          BY <1>1, <2>1, <4>1, <4>3 DEF LinesInv
      <3>3. /\ Cardinality(full_line_list') = Cardinality(full_line_list) - 1
            /\ Cardinality(victim_line_pq') = Cardinality(victim_line_pq) + 1
        BY <1>1, <2>1, <3>1, <3>2, Joins, Leaves DEF FullToVictim
      <3>4. \A l \in Line : line_pos'[l] <=> l \in victim_line_pq'
        BY <1>1, <2>1, <3>1, PosQueued DEF SizesInv, FullToVictim
      <3> QED
        BY <2>2, <3>1, <3>3, <3>4 DEF SizesInv, FullToVictim
    <2> QED
      BY <2>3, <2>4
  <1> QED
    BY <1>2, <1>3

(* ... when a victim is taken out ... *)
LEMMA SelectSizes ==
  ASSUME FtlInv, SizesInv, NEW force, NEW ret, select_victim_line(force, ret)
  PROVE  SizesInv'
  <1>1. TypeOK /\ victim_line_pq \in SUBSET Line
    BY DEF FtlInv, TypeInv, TypeOK
  <1>2. PICK v \in PeekVictim :
          /\ victim_line_pq' = victim_line_pq \ {v}
          /\ victim_line_cnt' = victim_line_cnt - 1
          /\ line_pos' = [line_pos EXCEPT ![v] = FALSE]
          /\ UNCHANGED <<free_line_list, full_line_list, free_line_cnt, full_line_cnt>>
    BY DEF select_victim_line
  <1>3. v \in victim_line_pq /\ v \in Line
    BY <1>1 DEF PeekVictim
  <1>4. Cardinality(victim_line_pq') = Cardinality(victim_line_pq) - 1
    BY <1>1, <1>2, <1>3, Leaves
  <1>5. \A l \in Line : line_pos'[l] <=> l \in victim_line_pq'
    BY <1>1, <1>2, <1>3, PosPopped DEF SizesInv
  <1> QED
    BY <1>2, <1>4, <1>5 DEF SizesInv

(* ... and when the cleaned line is given back. *)
LEMMA FreeLineSizes ==
  ASSUME FtlInv, SizesInv, GcFreeLine
  PROVE  SizesInv'
  <1>1. free_line_list \in Seq(Line) /\ gc.victim \in Line
    BY DEF FtlInv, TypeInv, TypeOK, Cursors, GcFreeLine
  <1>2. /\ free_line_list' = Append(free_line_list, gc.victim)
        /\ free_line_cnt' = free_line_cnt + 1
        /\ UNCHANGED <<line_pos, victim_line_pq, full_line_list, victim_line_cnt, full_line_cnt>>
    BY DEF GcFreeLine
  <1>3. Len(free_line_list') = Len(free_line_list) + 1
    BY <1>1, <1>2
  <1> QED
    BY <1>2, <1>3 DEF SizesInv

LEMMA SizesNext == FtlInv /\ SizesInv /\ [Next]_vars => SizesInv'
  <1> SUFFICES ASSUME FtlInv, SizesInv, [Next]_vars PROVE SizesInv'
    OBVIOUS
  <1>1. ASSUME UNCHANGED <<line_pos, listVars>> PROVE SizesInv'
    BY <1>1 DEF SizesInv, listVars
  <1>2. ASSUME NEW first \in HostLpns, NEW last \in HostLpns, StartWrite(first, last)
        PROVE  SizesInv'
    BY <1>1, <1>2 DEF StartWrite, lineVars
  <1>3. CASE GcHighStep \/ CheckGcRun
    BY <1>3, SelectSizes DEF GcHighStep, CheckGcRun
  <1>4. CASE GcHighLeave \/ CheckGcSkip \/ GcSkipPage \/ GcEraseBlock
    BY <1>1, <1>4 DEF GcHighLeave, CheckGcSkip, GcSkipPage, GcEraseBlock, lineVars
  <1>5. CASE InvalidateOld
    BY <1>5, InvalidateSizes
  <1>6. CASE WriteNew \/ GcMovePage
    <2>1. pc # "oops" /\ ssd_advance_write_pointer
      BY <1>6 DEF WriteNew, GcMovePage, ProgramPage
    <2> QED
      BY <2>1, AdvanceSizes
  <1>7. CASE GcFreeLine
    BY <1>7, FreeLineSizes
  <1>8. CASE UNCHANGED vars
    BY <1>1, <1>8 DEF vars, listVars
  <1> QED
    BY <1>2, <1>3, <1>4, <1>5, <1>6, <1>7, <1>8 DEF Next, HostWrite, FtlStep

(* A list without repetition is as long as the set of its lines is large. *)
LEMMA LengthIsSize ==
  ASSUME NEW S, NEW s \in Seq(S), Distinct(s)
  PROVE  Cardinality(Elems(s)) = Len(s)
  <1>1. Len(s) \in Nat /\ \A i \in 1 .. Len(s) : s[i] \in S
    OBVIOUS
  <1> DEFINE f == [i \in 1 .. Len(s) |-> s[i]]
  <1>2. f \in Bijection(1 .. Len(s), Elems(s))
    BY DEF Bijection, Injection, Surjection, IsInjective, Elems, Distinct
  <1>3. ExistsBijection(1 .. Len(s), Elems(s))
    BY <1>2 DEF ExistsBijection
  <1>4. IsFiniteSet(1 .. Len(s)) /\ Cardinality(1 .. Len(s)) = Len(s)
    <2>1. ASSUME NEW n \in Nat PROVE IsFiniteSet(1 .. n) /\ Cardinality(1 .. n) = n
      <3>1. n \in Int /\ 1 \in Int /\ n - 1 + 1 = n /\ (1 > n => n = 0)
        OBVIOUS
      <3> QED
        BY <3>1, FS_Interval
    <2> QED
      BY <1>1, <2>1
  <1> QED
    BY <1>3, <1>4, FS_Bijection

(* A line is never in two places nor lost, whatever the sequence of writes, *)
(* overwrites and cleanings, and what the code looks at to tell where it is *)
(* (the three counters, pos) is exact (ftl.c, mark_page_invalid,            *)
(* ssd_advance_write_pointer, select_victim_line, mark_line_free).          *)
THEOREM LinesPartitioned == Spec => []LinePartition
  <1>1. FtlInv /\ SizesInv => LinePartition
    <2> SUFFICES ASSUME FtlInv, SizesInv PROVE LinePartition
      OBVIOUS
    <2>1. /\ LinesInv /\ free_line_list \in Seq(Line) /\ FreeLines \subseteq Line
          /\ victim_line_pq \subseteq Line /\ full_line_list \subseteq Line
          /\ wp.curline \in Line \union {NULL} /\ gc.victim \in Line \union {NULL}
          /\ NULL \notin Line
      BY NullAssumption DEF FtlInv, TypeInv, TypeOK, FreeLines
    <2> DEFINE places == <<FreeLines, victim_line_pq, full_line_list, {wp.curline} \ {NULL},
                           {gc.victim} \ {NULL}>>
    <2>2. \A i, j \in 1 .. 5 : i # j => places[i] \intersect places[j] = {}
      BY <2>1 DEF LinesInv
    <2>3. Line = UNION {places[i] : i \in 1 .. 5}
      <3>1. UNION {places[i] : i \in 1 .. 5}
              = FreeLines \union victim_line_pq \union full_line_list
                \union ({wp.curline} \ {NULL}) \union ({gc.victim} \ {NULL})
        OBVIOUS
      <3> QED
        BY <2>1, <3>1 DEF LinesInv
    <2>4. Len(free_line_list) = Cardinality(FreeLines)
      BY <2>1, LengthIsSize, FreeIsElems DEF LinesInv
    <2> QED
      BY <2>2, <2>3, <2>4 DEF LinePartition, SizesInv
  <1>2. Spec => []SizesInv
    BY SizesInit, SizesNext, FtlInvariant, PTL DEF Spec
  <1> QED
    BY <1>1, <1>2, FtlInvariant, PTL

-----------------------------------------------------------------------------
(* Counting pages *)

(* The pages of a line and of a block. *)
OnLine(l)  == {p \in Ppa : p.blk = l}
OnBlock(b) == {p \in Ppa : BlockOf(p) = b}

(* How many of the pages ps have status s, st being the status of each. *)
Count(st, ps, s) == Cardinality({p \in ps : st[p] = s})

(* A line has pgs_per_line pages. *)
LEMMA LineSize ==
  ASSUME NEW l \in Line
  PROVE  IsFiniteSet(OnLine(l)) /\ Cardinality(OnLine(l)) = pgs_per_line
  <1>1. /\ IsFiniteSet(Ch) /\ Cardinality(Ch) = nchs
        /\ IsFiniteSet(Lun) /\ Cardinality(Lun) = luns_per_ch
        /\ IsFiniteSet(Pg) /\ Cardinality(Pg) = pgs_per_blk
    <2>1. ASSUME NEW n \in Nat \ {0}
          PROVE  IsFiniteSet(0 .. n - 1) /\ Cardinality(0 .. n - 1) = n
      <3>1. n - 1 \in Int /\ 0 \in Int /\ ~(0 > n - 1) /\ (n - 1) - 0 + 1 = n
        OBVIOUS
      <3> QED
        BY <3>1, FS_Interval
    <2> QED
      BY <2>1, GeometryAssumption DEF Ch, Lun, Pg
  <1> DEFINE T == Pg \X (Lun \X Ch)
             f == [t \in T |-> [ch |-> t[2][2], lun |-> t[2][1], blk |-> l, pg |-> t[1]]]
  <1>2. IsFiniteSet(Lun \X Ch) /\ Cardinality(Lun \X Ch) = luns_per_ch * nchs
    BY <1>1, FS_Product
  <1>3. IsFiniteSet(T) /\ Cardinality(T) = pgs_per_blk * (luns_per_ch * nchs)
    <2>1. ASSUME NEW S, IsFiniteSet(S)
          PROVE  /\ IsFiniteSet(Pg \X S)
                 /\ Cardinality(Pg \X S) = Cardinality(Pg) * Cardinality(S)
      BY <1>1, <2>1, FS_Product
    <2> QED
      BY <1>1, <1>2, <2>1
  <1>4. f \in [T -> OnLine(l)]
    BY DEF OnLine, Ppa
  <1>5. ASSUME NEW t \in T, NEW u \in T, f[t] = f[u] PROVE t = u
    <2>1. t[2][2] = u[2][2] /\ t[2][1] = u[2][1] /\ t[1] = u[1]
      BY <1>5
    <2>2. /\ t = <<t[1], t[2]>> /\ t[2] = <<t[2][1], t[2][2]>>
          /\ u = <<u[1], u[2]>> /\ u[2] = <<u[2][1], u[2][2]>>
      OBVIOUS
    <2> QED
      BY <2>1, <2>2
  <1>6. ASSUME NEW p \in OnLine(l) PROVE \E t \in T : f[t] = p
    <2>1. /\ p.ch \in Ch /\ p.lun \in Lun /\ p.pg \in Pg /\ p.blk = l
          /\ p = [ch |-> p.ch, lun |-> p.lun, blk |-> p.blk, pg |-> p.pg]
      BY <1>6 DEF OnLine, Ppa
    <2> DEFINE t == <<p.pg, <<p.lun, p.ch>>>>
    <2>2. t \in T /\ t[1] = p.pg /\ t[2][1] = p.lun /\ t[2][2] = p.ch
      BY <2>1
    <2>3. f[t] = p
      BY <2>1, <2>2
    <2> QED
      BY <2>2, <2>3
  <1>7. f \in Bijection(T, OnLine(l))
    BY <1>4, <1>5, <1>6 DEF Bijection, Injection, Surjection, IsInjective
  <1> QED
    BY <1>3, <1>7, FS_Bijection DEF ExistsBijection, pgs_per_line

LEMMA PagesFinite ==
  /\ \A l \in Line : IsFiniteSet(OnLine(l))
  /\ \A b \in Block : IsFiniteSet(OnBlock(b)) /\ OnBlock(b) \subseteq OnLine(b.blk)
  <1>1. \A l \in Line : IsFiniteSet(OnLine(l))
    BY LineSize
  <1>2. ASSUME NEW b \in Block
        PROVE  IsFiniteSet(OnBlock(b)) /\ OnBlock(b) \subseteq OnLine(b.blk)
    <2>1. b.blk \in Line /\ OnBlock(b) \subseteq OnLine(b.blk)
      BY DEF Block, OnBlock, OnLine, BlockOf
    <2> QED
      BY <1>1, <2>1, FS_Subset
  <1> QED
    BY <1>1, <1>2

LEMMA OneMore ==
  ASSUME NEW S, NEW T, NEW x, IsFiniteSet(S), x \notin S, T = S \union {x}
  PROVE  Cardinality(T) = Cardinality(S) + 1
  BY FS_AddElement

LEMMA OneLess ==
  ASSUME NEW S, NEW T, NEW x, IsFiniteSet(S), x \in S, T = S \ {x}
  PROVE  Cardinality(T) = Cardinality(S) - 1
  BY FS_RemoveElement

(* One page changes status: a set with the page has one more of the new     *)
(* status and one less of the old; other sets count what they did.          *)
LEMMA Recount ==
  ASSUME NEW st, NEW st2, NEW ps, ps \subseteq Ppa, IsFiniteSet(ps),
         NEW q \in Ppa, st2[q] # st[q],
         \A p \in Ppa : p # q => st2[p] = st[p]
  PROVE  /\ q \in ps => /\ Count(st2, ps, st2[q]) = Count(st, ps, st2[q]) + 1
                        /\ Count(st2, ps, st[q]) = Count(st, ps, st[q]) - 1
         /\ \A s : q \notin ps \/ (s # st[q] /\ s # st2[q]) =>
                     Count(st2, ps, s) = Count(st, ps, s)
  <1> DEFINE A(s) == {p \in ps : st[p] = s}
             B(s) == {p \in ps : st2[p] = s}
  <1>1. \A s : IsFiniteSet(A(s))
    <2> SUFFICES ASSUME NEW s PROVE IsFiniteSet(A(s))
      OBVIOUS
    <2>1. A(s) \in SUBSET ps
      OBVIOUS
    <2> QED
      BY <2>1, FS_Subset
  <1>2. ASSUME q \in ps
        PROVE  /\ Cardinality(B(st2[q])) = Cardinality(A(st2[q])) + 1
               /\ Cardinality(B(st[q])) = Cardinality(A(st[q])) - 1
    <2>1. B(st2[q]) = A(st2[q]) \union {q} /\ q \notin A(st2[q])
      BY <1>2
    <2>2. B(st[q]) = A(st[q]) \ {q} /\ q \in A(st[q])
      BY <1>2
    <2>3. Cardinality(B(st2[q])) = Cardinality(A(st2[q])) + 1
      BY <1>1, <2>1, OneMore
    <2>4. Cardinality(B(st[q])) = Cardinality(A(st[q])) - 1
      BY <1>1, <2>2, OneLess
    <2> QED
      BY <2>3, <2>4
  <1>3. \A s : q \notin ps \/ (s # st[q] /\ s # st2[q]) => B(s) = A(s)
    OBVIOUS
  <1> QED
    BY <1>2, <1>3 DEF Count

LEMMA StatusRecount ==
  ASSUME NEW ps, ps \subseteq Ppa, IsFiniteSet(ps),
         NEW q \in Ppa, pg_status'[q] # pg_status[q],
         \A p \in Ppa : p # q => pg_status'[p] = pg_status[p]
  PROVE  /\ q \in ps =>
              /\ Count(pg_status', ps, pg_status'[q]) = Count(pg_status, ps, pg_status'[q]) + 1
              /\ Count(pg_status', ps, pg_status[q]) = Count(pg_status, ps, pg_status[q]) - 1
         /\ \A s : q \notin ps \/ (s # pg_status[q] /\ s # pg_status'[q]) =>
                     Count(pg_status', ps, s) = Count(pg_status, ps, s)
  BY Recount

-----------------------------------------------------------------------------
(* The counters *)

(* A line counts its valid and invalid pages, and a block its own. *)
LineExact(l) ==
  /\ line_vpc[l] = Count(pg_status, OnLine(l), "PG_VALID")
  /\ line_ipc[l] = Count(pg_status, OnLine(l), "PG_INVALID")

BlockExact(b) ==
  /\ blk_vpc[b] = Count(pg_status, OnBlock(b), "PG_VALID")
  /\ blk_ipc[b] = Count(pg_status, OnBlock(b), "PG_INVALID")

(* What is exact outside the victim, and the zeroes left in the victim's    *)
(* blocks by the erase: they are exact again when the line is given back.   *)
CountInv ==
  /\ \A l \in Line \ {gc.victim} : LineExact(l)
  /\ \A b \in Block : b.blk # gc.victim => BlockExact(b)
  /\ pc = "gc_page" =>
       \A b \in Block : b.blk = gc.victim /\ Erased(b) => blk_vpc[b] = 0 /\ blk_ipc[b] = 0
  /\ pc = "gc_free_line" =>
       \A b \in Block : b.blk = gc.victim => blk_vpc[b] = 0 /\ blk_ipc[b] = 0

LEMMA CountNone ==
  ASSUME NEW st, NEW ps, NEW s, \A p \in ps : st[p] # s
  PROVE  Count(st, ps, s) = 0
  <1>1. {p \in ps : st[p] = s} = {}
    OBVIOUS
  <1> QED
    BY <1>1, FS_EmptySet DEF Count

(* The pages of ps have kept their status. *)
LEMMA CountSame ==
  ASSUME NEW st, NEW st2, NEW ps, NEW s, \A p \in ps : st2[p] = st[p]
  PROVE  Count(st2, ps, s) = Count(st, ps, s)
  <1>1. {p \in ps : st2[p] = s} = {p \in ps : st[p] = s}
    OBVIOUS
  <1> QED
    BY <1>1 DEF Count

LEMMA CountInit == Init => CountInv
  <1> SUFFICES ASSUME Init PROVE CountInv
    OBVIOUS
  <1>1. \A p \in Ppa : pg_status[p] # "PG_VALID" /\ pg_status[p] # "PG_INVALID"
    BY DEF Init, ssd_init_nand
  <1>2. ASSUME NEW ps, ps \subseteq Ppa
        PROVE  Count(pg_status, ps, "PG_VALID") = 0 /\ Count(pg_status, ps, "PG_INVALID") = 0
    BY <1>1, <1>2, CountNone
  <1>3. \A l \in Line : LineExact(l)
    BY <1>2 DEF Init, ssd_init_lines, LineExact, OnLine
  <1>4. \A b \in Block : BlockExact(b)
    BY <1>2 DEF Init, ssd_init_nand, BlockExact, OnBlock
  <1> QED
    BY <1>3, <1>4 DEF CountInv, Init

(* A programmed page is one more valid page of its line and block, and of   *)
(* no other.                                                                *)
LEMMA ProgramCounts ==
  ASSUME FtlInv, CountInv, pc # "oops", NEW l, NEW next, ProgramPage(l, next),
         gc'.victim = gc.victim
  PROVE  /\ \A k \in Line \ {gc.victim} : LineExact(k)'
         /\ \A b \in Block : b.blk # gc.victim => BlockExact(b)'
         /\ \A b \in Block : b.blk = gc.victim => blk_vpc'[b] = blk_vpc[b] /\ blk_ipc'[b] = blk_ipc[b]
  <1> DEFINE q == get_new_page
  <1>1. /\ q \in Ppa /\ q.blk \in Line /\ q.blk # gc.victim /\ BlockOf(q) \in Block
        /\ BlockOf(q).blk = q.blk
        /\ pg_status[q] = "PG_FREE"
        /\ pg_status \in [Ppa -> PageStatus]
        /\ blk_vpc \in [Block -> Int] /\ line_vpc \in [Line -> Int]
    BY NewPage DEF FtlInv, LinesInv, TypeInv, TypeOK, BlockOf, Block, Ppa
  <1>2. /\ pg_status' = [pg_status EXCEPT ![q] = "PG_VALID"]
        /\ blk_vpc'  = [blk_vpc EXCEPT ![BlockOf(q)] = @ + 1]
        /\ line_vpc' = [line_vpc EXCEPT ![q.blk] = @ + 1]
        /\ UNCHANGED <<blk_ipc, line_ipc>>
    BY DEF ProgramPage, mark_page_valid
  <1>3. /\ pg_status'[q] = "PG_VALID"
        /\ \A p \in Ppa : p # q => pg_status'[p] = pg_status[p]
    BY <1>1, <1>2
  <1>4. ASSUME NEW ps, ps \subseteq Ppa, IsFiniteSet(ps)
        PROVE  /\ Count(pg_status', ps, "PG_INVALID") = Count(pg_status, ps, "PG_INVALID")
               /\ q \in ps => Count(pg_status', ps, "PG_VALID") = Count(pg_status, ps, "PG_VALID") + 1
               /\ q \notin ps => Count(pg_status', ps, "PG_VALID") = Count(pg_status, ps, "PG_VALID")
    <2>1. pg_status'[q] # pg_status[q]
      BY <1>1, <1>3
    <2>2. /\ q \in ps => Count(pg_status', ps, pg_status'[q]) = Count(pg_status, ps, pg_status'[q]) + 1
          /\ \A s : q \notin ps \/ (s # pg_status[q] /\ s # pg_status'[q]) =>
                      Count(pg_status', ps, s) = Count(pg_status, ps, s)
      BY <1>1, <1>3, <1>4, <2>1, StatusRecount
    <2> QED
      BY <1>1, <1>3, <2>2
  <1>5. ASSUME NEW k \in Line, k # gc.victim PROVE LineExact(k)'
    <2>1. LineExact(k) /\ IsFiniteSet(OnLine(k)) /\ OnLine(k) \subseteq Ppa
      BY <1>5, PagesFinite DEF CountInv, OnLine
    <2>2. q \in OnLine(k) <=> k = q.blk
      BY <1>1 DEF OnLine
    <2>3. line_vpc'[k] = IF k = q.blk THEN line_vpc[k] + 1 ELSE line_vpc[k]
      BY <1>1, <1>2
    <2> QED
      BY <1>2, <1>4, <2>1, <2>2, <2>3 DEF LineExact
  <1>6. ASSUME NEW b \in Block, b.blk # gc.victim PROVE BlockExact(b)'
    <2>1. BlockExact(b) /\ IsFiniteSet(OnBlock(b)) /\ OnBlock(b) \subseteq Ppa
      BY <1>6, PagesFinite DEF CountInv, OnBlock
    <2>2. q \in OnBlock(b) <=> b = BlockOf(q)
      BY <1>1 DEF OnBlock
    <2>3. blk_vpc'[b] = IF b = BlockOf(q) THEN blk_vpc[b] + 1 ELSE blk_vpc[b]
      BY <1>1, <1>2
    <2> QED
      BY <1>2, <1>4, <2>1, <2>2, <2>3 DEF BlockExact
  <1>7. \A b \in Block : b.blk = gc.victim => blk_vpc'[b] = blk_vpc[b] /\ blk_ipc'[b] = blk_ipc[b]
    BY <1>1, <1>2
  <1> QED
    BY <1>5, <1>6, <1>7

(* A page that is overwritten is one valid page less and one invalid more.  *)
LEMMA InvalidateCounts ==
  ASSUME FtlInv, CountInv, InvalidateOld
  PROVE  CountInv'
  <1>1. /\ pc = "invalidate" /\ pc' = "program" /\ gc.victim = NULL /\ gc' = gc
        /\ NULL \notin Line
        /\ pg_status \in [Ppa -> PageStatus]
        /\ blk_vpc \in [Block -> Int] /\ line_vpc \in [Line -> Int]
        /\ blk_ipc \in [Block -> Int] /\ line_ipc \in [Line -> Int]
    BY NullAssumption DEF FtlInv, TypeInv, TypeOK, Cursors, NoGc, InvalidateOld
  <1> DEFINE q == maptbl[lpn]
  <1>2. CASE q = UNMAPPED_PPA
    <2>1. UNCHANGED <<pg_status, blk_vpc, blk_ipc, line_vpc, line_ipc>>
      BY <1>2 DEF InvalidateOld, pageVars, lineVars
    <2> QED
      BY <1>1, <2>1 DEF CountInv, LineExact, BlockExact
  <1>3. CASE q # UNMAPPED_PPA
    <2>1. /\ q \in Ppa /\ q.blk \in Line /\ BlockOf(q) \in Block
          /\ pg_status[q] = "PG_VALID" /\ mark_page_invalid(q)
      BY <1>1, <1>3 DEF FtlInv, TypeInv, TypeOK, MapInv, MappingConsistent, Ppa, Block,
                        BlockOf, InvalidateOld
    <2>2. /\ pg_status' = [pg_status EXCEPT ![q] = "PG_INVALID"]
          /\ blk_ipc'  = [blk_ipc EXCEPT ![BlockOf(q)] = @ + 1]
          /\ blk_vpc'  = [blk_vpc EXCEPT ![BlockOf(q)] = @ - 1]
          /\ line_ipc' = [line_ipc EXCEPT ![q.blk] = @ + 1]
          /\ line_vpc' = [line_vpc EXCEPT ![q.blk] = @ - 1]
      BY <2>1 DEF mark_page_invalid
    <2>3. /\ pg_status'[q] = "PG_INVALID"
          /\ \A p \in Ppa : p # q => pg_status'[p] = pg_status[p]
      BY <1>1, <2>1, <2>2
    <2>4. ASSUME NEW ps, ps \subseteq Ppa, IsFiniteSet(ps)
          PROVE  /\ q \in ps =>
                      /\ Count(pg_status', ps, "PG_INVALID") = Count(pg_status, ps, "PG_INVALID") + 1
                      /\ Count(pg_status', ps, "PG_VALID") = Count(pg_status, ps, "PG_VALID") - 1
                 /\ q \notin ps =>
                      /\ Count(pg_status', ps, "PG_INVALID") = Count(pg_status, ps, "PG_INVALID")
                      /\ Count(pg_status', ps, "PG_VALID") = Count(pg_status, ps, "PG_VALID")
      <3>1. pg_status'[q] # pg_status[q]
        BY <2>1, <2>3
      <3>2. /\ q \in ps =>
                 /\ Count(pg_status', ps, pg_status'[q]) = Count(pg_status, ps, pg_status'[q]) + 1
                 /\ Count(pg_status', ps, pg_status[q]) = Count(pg_status, ps, pg_status[q]) - 1
            /\ \A s : q \notin ps \/ (s # pg_status[q] /\ s # pg_status'[q]) =>
                        Count(pg_status', ps, s) = Count(pg_status, ps, s)
        BY <2>1, <2>3, <2>4, <3>1, StatusRecount
      <3> QED
        BY <2>1, <2>3, <3>2
    <2>5. ASSUME NEW k \in Line PROVE LineExact(k)'
      <3>1. LineExact(k) /\ IsFiniteSet(OnLine(k)) /\ OnLine(k) \subseteq Ppa
        BY <1>1, PagesFinite DEF CountInv, OnLine
      <3>2. q \in OnLine(k) <=> k = q.blk
        BY <2>1 DEF OnLine
      <3>3. /\ line_vpc'[k] = IF k = q.blk THEN line_vpc[k] - 1 ELSE line_vpc[k]
            /\ line_ipc'[k] = IF k = q.blk THEN line_ipc[k] + 1 ELSE line_ipc[k]
        BY <1>1, <2>1, <2>2
      <3> QED
        BY <2>4, <3>1, <3>2, <3>3 DEF LineExact
    <2>6. ASSUME NEW b \in Block PROVE BlockExact(b)'
      <3>1. BlockExact(b) /\ IsFiniteSet(OnBlock(b)) /\ OnBlock(b) \subseteq Ppa
        BY <1>1, PagesFinite DEF CountInv, OnBlock, Block
      <3>2. q \in OnBlock(b) <=> b = BlockOf(q)
        BY <2>1 DEF OnBlock
      <3>3. /\ blk_vpc'[b] = IF b = BlockOf(q) THEN blk_vpc[b] - 1 ELSE blk_vpc[b]
            /\ blk_ipc'[b] = IF b = BlockOf(q) THEN blk_ipc[b] + 1 ELSE blk_ipc[b]
        BY <1>1, <2>1, <2>2
      <3> QED
        BY <2>4, <3>1, <3>2, <3>3 DEF BlockExact
    <2> QED
      BY <1>1, <2>5, <2>6 DEF CountInv
  <1> QED
    BY <1>2, <1>3

(* A new victim: nothing of it is erased yet. *)
LEMMA SelectCounts ==
  ASSUME FtlInv, CountInv, NEW force, NEW ret, select_victim_line(force, ret),
         pc \in {"gc_high", "check_gc"},
         UNCHANGED <<pg_status, blk_vpc, blk_ipc, line_vpc, line_ipc>>
  PROVE  CountInv'
  <1>1. gc.victim = NULL /\ NULL \notin Line
    BY NullAssumption DEF FtlInv, TypeInv, Cursors, NoGc
  <1>2. pc' = "gc_page" /\ gc'.ch = 0 /\ gc'.lun = 0
    BY DEF select_victim_line
  <1>3. /\ \A l \in Line : LineExact(l)
        /\ \A b \in Block : BlockExact(b)
    BY <1>1 DEF CountInv, Block
  <1>4. /\ \A l \in Line : LineExact(l)'
        /\ \A b \in Block : BlockExact(b)'
    BY <1>3 DEF LineExact, BlockExact
  <1>5. \A b \in Block : ~(Erased(b)')
    BY <1>2 DEF Erased, Block, Ch, Lun
  <1> QED
    BY <1>2, <1>4, <1>5 DEF CountInv

(* One block of the victim is erased, and it counts nothing. *)
LEMMA EraseCounts ==
  ASSUME FtlInv, CountInv, GcEraseBlock
  PROVE  CountInv'
  <1>1. /\ gc \in GcType /\ gc.victim \in Line /\ pc = "gc_page"
        /\ blk_vpc \in [Block -> Int] /\ blk_ipc \in [Block -> Int]
    BY DEF FtlInv, TypeInv, TypeOK, GcType, Cursors, GcEraseBlock
  <1> DEFINE blk == [ch |-> gc.ch, lun |-> gc.lun, blk |-> gc.victim]
  <1>2. /\ mark_block_free(blk)
        /\ UNCHANGED <<line_vpc, line_ipc>>
    BY DEF GcEraseBlock, lineVars
  <1>3. /\ blk \in Block /\ blk.ch = gc.ch /\ blk.lun = gc.lun /\ blk.blk = gc.victim
        /\ \A b \in Block : b.ch = gc.ch /\ b.lun = gc.lun /\ b.blk = gc.victim => b = blk
    BY <1>1 DEF Block, GcType
  <1>4. /\ blk_vpc' = [blk_vpc EXCEPT ![blk] = 0] /\ blk_ipc' = [blk_ipc EXCEPT ![blk] = 0]
        /\ \A p \in Ppa : BlockOf(p) # blk => pg_status'[p] = pg_status[p]
    BY <1>2 DEF mark_block_free
  <1>5. \A b \in Block : /\ b = blk => blk_vpc'[b] = 0 /\ blk_ipc'[b] = 0
                         /\ b # blk => blk_vpc'[b] = blk_vpc[b] /\ blk_ipc'[b] = blk_ipc[b]
    BY <1>1, <1>3, <1>4
  <1>6. /\ gc.ch \in 0 .. nchs - 1 /\ gc.lun \in 0 .. luns_per_ch - 1
        /\ nchs \in Nat /\ luns_per_ch \in Nat
        /\ \A b \in Block : b.ch \in 0 .. nchs - 1 /\ b.lun \in 0 .. luns_per_ch - 1
    BY <1>1, GeometryAssumption DEF GcType, Ch, Lun, Block
  <1>7. \/ /\ gc.lun + 1 < luns_per_ch /\ pc' = "gc_page"
           /\ gc'.victim = gc.victim /\ gc'.ch = gc.ch /\ gc'.lun = gc.lun + 1
        \/ /\ gc.lun + 1 = luns_per_ch /\ pc' = "gc_page"
           /\ gc'.victim = gc.victim /\ gc'.ch = gc.ch + 1 /\ gc'.lun = 0
        \/ /\ gc.lun + 1 = luns_per_ch /\ gc.ch + 1 = nchs
           /\ pc' = "gc_free_line" /\ gc' = gc
    BY <1>1 DEF GcEraseBlock, GcType
  <1>8. ASSUME NEW k \in Line, k # gc.victim PROVE LineExact(k)'
    <2>1. LineExact(k)
      BY <1>8 DEF CountInv
    <2>2. \A p \in OnLine(k) : pg_status'[p] = pg_status[p]
      BY <1>3, <1>4, <1>8 DEF OnLine, BlockOf
    <2>3. \A s : Count(pg_status', OnLine(k), s) = Count(pg_status, OnLine(k), s)
      BY <2>2, CountSame
    <2> QED
      BY <1>2, <2>1, <2>3 DEF LineExact
  <1>9. ASSUME NEW b \in Block, b.blk # gc.victim PROVE BlockExact(b)'
    <2>1. BlockExact(b) /\ b # blk
      BY <1>3, <1>9 DEF CountInv
    <2>2. \A p \in OnBlock(b) : pg_status'[p] = pg_status[p]
      BY <1>4, <2>1 DEF OnBlock
    <2>3. \A s : Count(pg_status', OnBlock(b), s) = Count(pg_status, OnBlock(b), s)
      BY <2>2, CountSame
    <2> QED
      BY <1>5, <2>1, <2>3 DEF BlockExact
  <1>10. pc' = "gc_page" =>
           \A b \in Block : b.blk = gc.victim /\ Erased(b)' => Erased(b) \/ b = blk
    BY <1>3, <1>6, <1>7 DEF Erased
  <1>11. pc' = "gc_free_line" =>
           \A b \in Block : b.blk = gc.victim => Erased(b) \/ b = blk
    BY <1>3, <1>6, <1>7 DEF Erased
  <1>12. gc'.victim = gc.victim /\ pc' \in {"gc_page", "gc_free_line"}
    BY <1>7
  <1> QED
    BY <1>1, <1>5, <1>8, <1>9, <1>10, <1>11, <1>12 DEF CountInv

(* The line that is given back is all erased: its zeroes are exact. *)
LEMMA FreeLineCounts ==
  ASSUME FtlInv, CountInv, GcFreeLine
  PROVE  CountInv'
  <1>1. /\ gc.victim \in Line /\ pc = "gc_free_line" /\ gc'.victim = NULL /\ NULL \notin Line
        /\ pc' \in {"idle", "gc_high"}
        /\ line_vpc \in [Line -> Int] /\ line_ipc \in [Line -> Int]
        /\ line_vpc' = [line_vpc EXCEPT ![gc.victim] = 0]
        /\ line_ipc' = [line_ipc EXCEPT ![gc.victim] = 0]
        /\ UNCHANGED <<pg_status, blk_vpc, blk_ipc>>
    BY NullAssumption DEF FtlInv, TypeInv, TypeOK, Cursors, GcFreeLine, NoGc, pageVars
  <1>2. \A p \in Ppa : p.blk = gc.victim =>
          pg_status[p] # "PG_VALID" /\ pg_status[p] # "PG_INVALID"
    BY <1>1 DEF FtlInv, PagesInv
  <1>3. ASSUME NEW k \in Line PROVE LineExact(k)'
    <2>1. CASE k = gc.victim
      <3>1. /\ Count(pg_status, OnLine(k), "PG_VALID") = 0
            /\ Count(pg_status, OnLine(k), "PG_INVALID") = 0
        BY <1>2, <2>1, CountNone DEF OnLine
      <3> QED
        BY <1>1, <2>1, <3>1 DEF LineExact
    <2>2. CASE k # gc.victim
      BY <1>1, <2>2 DEF CountInv, LineExact
    <2> QED
      BY <2>1, <2>2
  <1>4. ASSUME NEW b \in Block PROVE BlockExact(b)'
    <2>1. CASE b.blk = gc.victim
      <3>1. /\ Count(pg_status, OnBlock(b), "PG_VALID") = 0
            /\ Count(pg_status, OnBlock(b), "PG_INVALID") = 0
        <4>1. \A p \in OnBlock(b) : pg_status[p] # "PG_VALID" /\ pg_status[p] # "PG_INVALID"
          BY <1>2, <2>1 DEF OnBlock, BlockOf
        <4> QED
          BY <4>1, CountNone
      <3>2. blk_vpc[b] = 0 /\ blk_ipc[b] = 0
        BY <1>1, <2>1 DEF CountInv
      <3> QED
        BY <1>1, <3>1, <3>2 DEF BlockExact
    <2>2. CASE b.blk # gc.victim
      BY <1>1, <2>2 DEF CountInv, BlockExact
    <2> QED
      BY <2>1, <2>2
  <1> QED
    BY <1>1, <1>3, <1>4 DEF CountInv

LEMMA CountNext == FtlInv /\ CountInv /\ [Next]_vars => CountInv'
  <1> SUFFICES ASSUME FtlInv, CountInv, [Next]_vars PROVE CountInv'
    OBVIOUS
  <1>1. ASSUME UNCHANGED <<pageVars, line_vpc, line_ipc>>, gc'.victim = gc.victim,
               pc' = "gc_page" => pc = "gc_page" /\ gc'.ch = gc.ch /\ gc'.lun = gc.lun,
               pc' = "gc_free_line" => pc = "gc_free_line"
        PROVE  CountInv'
    BY <1>1 DEF CountInv, LineExact, BlockExact, Erased, pageVars
  <1>2. ASSUME NEW first \in HostLpns, NEW last \in HostLpns, StartWrite(first, last)
        PROVE  CountInv'
    BY <1>1, <1>2 DEF StartWrite, lineVars
  <1>3. CASE GcHighStep
    BY <1>3, SelectCounts DEF GcHighStep, pageVars
  <1>4. CASE CheckGcRun
    BY <1>4, SelectCounts DEF CheckGcRun, pageVars
  <1>5. CASE GcHighLeave \/ CheckGcSkip
    BY <1>1, <1>5 DEF GcHighLeave, CheckGcSkip, lineVars
  <1>6. CASE InvalidateOld
    BY <1>6, InvalidateCounts
  <1>7. CASE WriteNew
    <2>1. PICK next \in {"invalidate", "check_gc"} :
            /\ pc = "program" /\ gc' = gc /\ ProgramPage(lpn, next)
            /\ pc' \in {next, "oops"}
      BY <1>7 DEF WriteNew, ProgramPage
    <2>2. /\ \A k \in Line \ {gc.victim} : LineExact(k)'
          /\ \A b \in Block : b.blk # gc.victim => BlockExact(b)'
      BY <2>1, ProgramCounts
    <2> QED
      BY <2>1, <2>2 DEF CountInv
  <1>8. CASE GcMovePage
    <2>1. /\ pc = "gc_page" /\ ProgramPage(rmap[GcPpa], "gc_page")
          /\ pc' \in {"gc_page", "oops"}
      BY <1>8 DEF GcMovePage, ProgramPage
    <2>2. gc'.victim = gc.victim /\ gc'.ch = gc.ch /\ gc'.lun = gc.lun
      BY <1>8, MoveMap
    <2>3. /\ \A k \in Line \ {gc.victim} : LineExact(k)'
          /\ \A b \in Block : b.blk # gc.victim => BlockExact(b)'
          /\ \A b \in Block : b.blk = gc.victim =>
               blk_vpc'[b] = blk_vpc[b] /\ blk_ipc'[b] = blk_ipc[b]
      BY <2>1, <2>2, ProgramCounts
    <2> QED
      BY <2>1, <2>2, <2>3 DEF CountInv, Erased
  <1>9. CASE GcSkipPage
    <2>1. gc \in GcType /\ gc' = [gc EXCEPT !.pg = @ + 1] /\ pc' = pc
      BY <1>9 DEF GcSkipPage, FtlInv, TypeInv, TypeOK, GcType
    <2>2. gc'.victim = gc.victim /\ gc'.ch = gc.ch /\ gc'.lun = gc.lun
      BY <2>1 DEF GcType
    <2> QED
      BY <1>1, <1>9, <2>1, <2>2 DEF GcSkipPage, lineVars
  <1>10. CASE GcEraseBlock
    BY <1>10, EraseCounts
  <1>11. CASE GcFreeLine
    BY <1>11, FreeLineCounts
  <1>12. CASE UNCHANGED vars
    BY <1>1, <1>12 DEF vars, pageVars
  <1> QED
    BY <1>2, <1>3, <1>4, <1>5, <1>6, <1>7, <1>8, <1>9, <1>10, <1>11, <1>12
       DEF Next, HostWrite, FtlStep

LEMMA CountInvariant == Spec => []CountInv
  BY CountInit, CountNext, FtlInvariant, PTL DEF Spec

-----------------------------------------------------------------------------
(* The theorems *)

(* The counts that send a line to the full list or to the victim queue and  *)
(* that choose the victim are those of its pages, after every sequence of   *)
(* writes, overwrites, copies and erases (ftl.c, mark_page_valid,           *)
(* mark_page_invalid, mark_block_free, mark_line_free).                     *)
THEOREM CountsExact == Spec => []CountersExact
  <1>1. CountInv => CountersExact
    <2> SUFFICES ASSUME CountInv PROVE CountersExact
      OBVIOUS
    <2>1. ASSUME NEW l \in Line \ {gc.victim}
          PROVE  /\ line_vpc[l] = PagesIn({p \in Ppa : p.blk = l}, "PG_VALID")
                 /\ line_ipc[l] = PagesIn({p \in Ppa : p.blk = l}, "PG_INVALID")
      BY DEF CountInv, LineExact, OnLine, Count, PagesIn
    <2>2. ASSUME NEW b \in Block, b.blk # gc.victim
          PROVE  /\ blk_vpc[b] = PagesIn({p \in Ppa : BlockOf(p) = b}, "PG_VALID")
                 /\ blk_ipc[b] = PagesIn({p \in Ppa : BlockOf(p) = b}, "PG_INVALID")
      BY <2>2 DEF CountInv, BlockExact, OnBlock, Count, PagesIn
    <2> QED
      BY <2>1, <2>2 DEF CountersExact
  <1> QED
    BY <1>1, CountInvariant, PTL

(* Cleaning a queued line gains space and meets no unwritten page: a line   *)
(* is queued when it is used up and not all valid, hence with an invalid    *)
(* page (ftl.c, clean_one_block, "there shouldn't be any free page").       *)
THEOREM VictimsWorthCleaning == Spec => []VictimsReclaimable
  <1>1. FtlInv /\ CountInv => VictimsReclaimable
    <2> SUFFICES ASSUME FtlInv, CountInv, NEW v \in victim_line_pq
                 PROVE  /\ \E p \in Ppa : p.blk = v /\ pg_status[p] = "PG_INVALID"
                        /\ \A p \in Ppa : p.blk = v => pg_status[p] # "PG_FREE"
      BY DEF VictimsReclaimable
    <2>1. /\ v \in Line /\ v # gc.victim /\ line_vpc[v] < pgs_per_line
          /\ \A p \in Ppa : p.blk = v => pg_status[p] # "PG_FREE"
          /\ \A p \in Ppa : pg_status[p] \in PageStatus
      BY DEF FtlInv, TypeInv, TypeOK, LinesInv, PagesInv
    <2>2. line_vpc[v] = Count(pg_status, OnLine(v), "PG_VALID")
      BY <2>1 DEF CountInv, LineExact
    <2>3. ASSUME \A p \in Ppa : p.blk = v => pg_status[p] # "PG_INVALID"
          PROVE  FALSE
      <3>1. {p \in OnLine(v) : pg_status[p] = "PG_VALID"} = OnLine(v)
        BY <2>1, <2>3 DEF OnLine, PageStatus
      <3>2. line_vpc[v] = pgs_per_line
        BY <2>1, <2>2, <3>1, LineSize DEF Count
      <3> QED
        BY <2>1, <3>2, Sizes
    <2> QED
      BY <2>1, <2>3
  <1> QED
    BY <1>1, FtlInvariant, CountInvariant, PTL

-----------------------------------------------------------------------------
(* Room for the write pointer *)

(* The logical pages that commands of the host can map. *)
Written ==
  {l \in Lpn : \E first, last \in HostLpns :
     first <= l /\ l <= last /\ last < first + MaxWriteLpns /\ last < tt_pgs}

(* The host leaves pages unwritten: what it writes does not fill the lines  *)
(* but for the current one and the gc_thres_lines_high that cleaning keeps, *)
(* and one command is no larger than those.                                 *)
SpareSpace ==
  /\ Cardinality(Written) < (blks_per_pl - gc_thres_lines_high - 1) * pgs_per_line
  /\ MaxWriteLpns <= gc_thres_lines_high * pgs_per_line

(* A command that is accepted is being written, or waits for cleaning. *)
Writing ==
  \/ pc \in {"gc_high", "invalidate", "program"}
  \/ pc \in {"gc_page", "gc_free_line"} /\ gc.ret = "gc_high"

(* Only what the host writes is mapped, now and when the command is done. *)
HostInv ==
  /\ \A l \in Lpn : maptbl[l] # UNMAPPED_PPA => l \in Written
  /\ Writing => /\ lpn <= end_lpn /\ end_lpn - lpn < MaxWriteLpns
                /\ lpn .. end_lpn \subseteq Written

(* The pages still to be programmed before the last line is used up. *)
Room == pgs_per_line * (Len(free_line_list) + 1) - Idx(wp)

(* The pages of the victim that cleaning has been over. *)
Moved == (gc.ch * luns_per_ch + gc.lun) * pgs_per_blk + gc.pg

(* Between commands there is room to copy a whole line, and on the way      *)
(* through a command for its pages as well.                                 *)
SpaceInv ==
  /\ pc # "oops"
  /\ pc \in {"idle", "gc_high", "check_gc"} => Room >= pgs_per_line + 1
  /\ pc \in {"invalidate", "program"} => Room >= pgs_per_line + 2 + (end_lpn - lpn)
  /\ pc = "gc_page" => Room + Moved >= pgs_per_line + 1
  /\ pc = "gc_free_line" => Room >= 1

LEMMA HostInit == Init => HostInv
  <1> SUFFICES ASSUME Init PROVE HostInv
    OBVIOUS
  <1>1. \A l \in Lpn : maptbl[l] = UNMAPPED_PPA
    BY DEF Init, ssd_init_maptbl
  <1>2. ~Writing
    BY DEF Init, Writing
  <1> QED
    BY <1>1, <1>2 DEF HostInv

LEMMA HostNext == FtlInv /\ HostInv /\ [Next]_vars => HostInv'
  <1> SUFFICES ASSUME FtlInv, HostInv, [Next]_vars PROVE HostInv'
    OBVIOUS
  <1>0. /\ TypeInv /\ TypeOK /\ MapInv /\ Cursors /\ gc \in GcType
        /\ maptbl \in [Lpn -> Ppa \union {UNMAPPED_PPA}]
        /\ lpn \in Lpn /\ end_lpn \in Lpn /\ lpn \in Int /\ end_lpn \in Int
    BY DEF FtlInv, TypeInv, TypeOK, GcType, Lpn
  <1>1. ASSUME maptbl' = maptbl, lpn' = lpn, end_lpn' = end_lpn, Writing' => Writing
        PROVE  HostInv'
    BY <1>1 DEF HostInv
  <1>2. ASSUME NEW first \in HostLpns, NEW last \in HostLpns, StartWrite(first, last)
        PROVE  HostInv'
    <2>1. maptbl' = maptbl /\ gc' = gc
      BY <1>2 DEF StartWrite, mapVars
    <2>2. CASE last >= tt_pgs
      <3>1. pc' = "check_gc"
        BY <1>2, <2>2, HostAssumption, Sizes DEF StartWrite
      <3>2. ~Writing'
        BY <3>1 DEF Writing
      <3> QED
        BY <2>1, <3>2 DEF HostInv
    <2>3. CASE ~(last >= tt_pgs)
      <3>1. /\ lpn' = first /\ end_lpn' = last /\ last < tt_pgs
            /\ first <= last /\ last < first + MaxWriteLpns
        BY <1>2, <2>3 DEF StartWrite
      <3>2. first \in Nat /\ last \in Nat /\ MaxWriteLpns \in Nat /\ tt_pgs \in Nat
        BY HostAssumption, Sizes
      <3>3. ASSUME NEW l \in first .. last PROVE l \in Written
        <4>1. l \in Lpn
          BY <3>1, <3>2 DEF Lpn
        <4> QED
          BY <3>1, <3>2, <4>1 DEF Written
      <3> QED
        BY <2>1, <3>1, <3>2, <3>3 DEF HostInv
    <2> QED
      BY <2>2, <2>3
  <1>3. CASE GcHighStep
    <2>1. pc = "gc_high" /\ UNCHANGED <<maptbl, lpn, end_lpn>>
      BY <1>3 DEF GcHighStep, mapVars
    <2> QED
      BY <1>1, <2>1 DEF Writing
  <1>4. CASE CheckGcRun
    <2>1. pc' = "gc_page" /\ gc'.ret = "idle" /\ UNCHANGED <<maptbl, lpn, end_lpn>>
      BY <1>4 DEF CheckGcRun, select_victim_line, mapVars
    <2> QED
      BY <1>1, <2>1 DEF Writing
  <1>5. CASE GcHighLeave \/ CheckGcSkip
    BY <1>1, <1>5 DEF GcHighLeave, CheckGcSkip, Writing, mapVars
  <1>6. CASE InvalidateOld
    BY <1>1, <1>6 DEF InvalidateOld, Writing
  <1>7. CASE WriteNew
    <2>1. PICK next \in {"invalidate", "check_gc"} :
            /\ pc = "program" /\ gc' = gc /\ ProgramPage(lpn, next)
            /\ pc' \in {next, "oops"}
            /\ next = "invalidate" => lpn < end_lpn /\ lpn' = lpn + 1 /\ end_lpn' = end_lpn
      BY <1>7 DEF WriteNew, ProgramPage
    <2>2. lpn <= end_lpn /\ end_lpn - lpn < MaxWriteLpns /\ lpn .. end_lpn \subseteq Written
      BY <2>1 DEF HostInv, Writing
    <2>3. \A k \in Lpn : k # lpn => maptbl'[k] = maptbl[k]
      BY <1>0, <2>1, ProgramMap
    <2>4. \A l \in Lpn : maptbl'[l] # UNMAPPED_PPA => l \in Written
      <3>1. lpn \in Written
        BY <1>0, <2>2
      <3> QED
        BY <2>3, <3>1 DEF HostInv
    <2>5. CASE pc' = "invalidate"
      <3>1. lpn < end_lpn /\ lpn' = lpn + 1 /\ end_lpn' = end_lpn
        BY <2>1, <2>5
      <3>2. lpn' <= end_lpn' /\ end_lpn' - lpn' < MaxWriteLpns
        BY <1>0, <2>2, <3>1, HostAssumption
      <3>3. lpn' .. end_lpn' \subseteq Written
        BY <1>0, <2>2, <3>1
      <3> QED
        BY <2>4, <3>2, <3>3 DEF HostInv
    <2>6. CASE pc' # "invalidate"
      <3>1. ~Writing'
        BY <2>1, <2>6 DEF Writing
      <3> QED
        BY <2>4, <3>1 DEF HostInv
    <2> QED
      BY <2>5, <2>6
  <1>8. CASE GcMovePage
    <2>1. /\ pc = "gc_page" /\ ProgramPage(rmap[GcPpa], "gc_page")
          /\ pg_status[GcPpa] = "PG_VALID"
          /\ pc' \in {"gc_page", "oops"} /\ lpn' = lpn /\ end_lpn' = end_lpn
          /\ gc' = [gc EXCEPT !.pg = @ + 1]
      BY <1>8 DEF GcMovePage, ProgramPage
    <2>2. rmap[GcPpa] \in Lpn /\ gc'.ret = gc.ret
      BY <1>0, <1>8, <2>1, MoveMap DEF GcType
    <2>3. \A k \in Lpn : k # rmap[GcPpa] => maptbl'[k] = maptbl[k]
      BY <2>1, <2>2, ProgramMap
    <2>4. rmap[GcPpa] \in Written
      <3>1. GcPpa \in Ppa /\ ~Passed(GcPpa)
        <4>1. gc.ch \in Ch /\ gc.lun \in Lun /\ gc.pg \in Pg /\ gc.victim \in Line
          BY <1>0, <1>8, GeometryAssumption DEF GcMovePage, BlockCleaned, GcType, Pg, Cursors
        <4>2. gc.pg \in Int
          BY <4>1 DEF Pg
        <4> QED
          BY <4>1, <4>2 DEF GcPpa, Ppa, Passed
      <3>2. maptbl[rmap[GcPpa]] = GcPpa
        BY <1>0, <2>1, <3>1 DEF MapInv, NoOrphan
      <3> QED
        BY <2>2, <3>1, <3>2, NullAssumption DEF HostInv
    <2>5. \A l \in Lpn : maptbl'[l] # UNMAPPED_PPA => l \in Written
      BY <2>3, <2>4 DEF HostInv
    <2>6. Writing' => Writing
      BY <2>1, <2>2 DEF Writing
    <2> QED
      BY <2>1, <2>5, <2>6 DEF HostInv
  <1>9. CASE GcSkipPage
    <2>1. /\ pc = "gc_page" /\ pc' = pc /\ UNCHANGED <<maptbl, lpn, end_lpn>>
          /\ gc' = [gc EXCEPT !.pg = @ + 1]
      BY <1>9 DEF GcSkipPage, mapVars
    <2>2. gc'.ret = gc.ret
      BY <1>0, <2>1 DEF GcType
    <2> QED
      BY <1>1, <2>1, <2>2 DEF Writing
  <1>10. CASE GcEraseBlock
    <2>1. /\ pc = "gc_page" /\ pc' \in {"gc_page", "gc_free_line"}
          /\ UNCHANGED <<maptbl, lpn, end_lpn>>
      BY <1>10 DEF GcEraseBlock, mapVars
    <2>2. gc'.ret = gc.ret
      BY <1>0, <1>10 DEF GcEraseBlock, GcType
    <2> QED
      BY <1>1, <2>1, <2>2 DEF Writing
  <1>11. CASE GcFreeLine
    <2>1. /\ pc = "gc_free_line" /\ pc' = gc.ret /\ gc.ret \in {"idle", "gc_high"}
          /\ UNCHANGED <<maptbl, lpn, end_lpn>>
      BY <1>0, <1>11 DEF GcFreeLine, mapVars, GcType
    <2> QED
      BY <1>1, <2>1 DEF Writing
  <1>12. CASE UNCHANGED vars
    BY <1>1, <1>12 DEF vars, Writing
  <1> QED
    BY <1>2, <1>3, <1>4, <1>5, <1>6, <1>7, <1>8, <1>9, <1>10, <1>11, <1>12
       DEF Next, HostWrite, FtlStep

LEMMA RoomType == TypeInv => Room \in Int
  <1> SUFFICES ASSUME TypeInv PROVE Room \in Int
    OBVIOUS
  <1>1. Len(free_line_list) \in Nat /\ Idx(wp) \in Nat /\ pgs_per_line \in Nat
    BY IdxRange, Sizes DEF TypeInv, TypeOK
  <1>2. pgs_per_line * (Len(free_line_list) + 1) \in Int
    BY <1>1
  <1> QED
    BY <1>1, <1>2 DEF Room

(* A page is programmed: unless it was the last there was room for, the     *)
(* pointer has a line.                                                      *)
LEMMA ProgramRoom ==
  ASSUME FtlInv, pc # "oops", NEW l, NEW next, ProgramPage(l, next), Room >= 2
  PROVE  Room' = Room - 1 /\ pc' = next
  <1>1. /\ TypeInv /\ ssd_advance_write_pointer /\ free_line_list \in Seq(Line)
        /\ pc' = IF wp'.curline = NULL THEN "oops" ELSE next
    BY DEF FtlInv, TypeInv, TypeOK, ProgramPage
  <1>2. /\ Idx(wp) \in Nat /\ pgs_per_line \in Nat /\ NULL \notin Line /\ wp.curline \in Line
        /\ Len(free_line_list) \in Nat
    BY <1>1, IdxRange, Sizes, NullAssumption, NewPage
  <1>3. CASE ~LastPage
    <2>1. /\ free_line_list' = free_line_list /\ wp'.curline = wp.curline
          /\ Idx(wp') = Idx(wp) + 1
      BY <1>1, <1>3, AdvanceWithin DEF listVars
    <2>2. pgs_per_line * (Len(free_line_list) + 1) \in Int
      BY <1>2
    <2>3. Room' = pgs_per_line * (Len(free_line_list) + 1) - Idx(wp')
      BY <2>1 DEF Room, pgs_per_line
    <2> QED
      BY <1>1, <1>2, <2>1, <2>2, <2>3 DEF Room
  <1>4. CASE LastPage
    <2>1. get_next_free_line /\ Idx(wp) + 1 = pgs_per_line
      BY <1>1, <1>4, AtLastPage DEF ssd_advance_write_pointer, LastPage, LastLun
    <2>2. free_line_list # <<>>
      <3> SUFFICES ASSUME free_line_list = <<>> PROVE FALSE
        OBVIOUS
      <3>1. Len(free_line_list) + 1 = 1 /\ pgs_per_line * 1 = pgs_per_line
        BY <1>2
      <3>2. Room = pgs_per_line - Idx(wp)
        BY <3>1 DEF Room
      <3> QED
        BY <1>2, <2>1, <3>2
    <2>3. /\ free_line_list' = Tail(free_line_list)
          /\ wp' = [curline |-> Head(free_line_list), ch |-> 0, lun |-> 0,
                    pg |-> 0, blk |-> Head(free_line_list)]
      BY <2>1, <2>2 DEF get_next_free_line
    <2>4. Len(free_line_list') = Len(free_line_list) - 1 /\ Head(free_line_list) \in Line
      BY <1>1, <2>2, <2>3
    <2>5. Idx(wp') = 0
      <3>1. 0 * luns_per_ch = 0 /\ 0 * nchs = 0
        BY GeometryAssumption
      <3> QED
        BY <2>3, <3>1 DEF Idx
    <2>6. Room' = pgs_per_line * Len(free_line_list)
      <3>1. Len(free_line_list') + 1 = Len(free_line_list)
        BY <1>2, <2>4
      <3>2. pgs_per_line * Len(free_line_list) \in Int
        BY <1>2
      <3>3. Room' = pgs_per_line * (Len(free_line_list') + 1) - Idx(wp')
        BY DEF Room, pgs_per_line
      <3> QED
        BY <2>5, <3>1, <3>2, <3>3
    <2>7. pgs_per_line * (Len(free_line_list) + 1)
            = pgs_per_line * Len(free_line_list) + pgs_per_line
      BY <1>2
    <2>8. pgs_per_line * Len(free_line_list) \in Int
      BY <1>2
    <2>9. Room' = Room - 1
      BY <1>2, <2>1, <2>6, <2>7, <2>8 DEF Room
    <2>10. wp'.curline \in Line
      BY <2>3, <2>4
    <2> QED
      BY <1>1, <1>2, <2>9, <2>10
  <1> QED
    BY <1>3, <1>4

(* With enough free lines there is room for a command and for a copy.       *)
LEMMA RoomOfFree ==
  ASSUME TypeInv, SpareSpace, Len(free_line_list) >= gc_thres_lines_high + 1
  PROVE  Room >= pgs_per_line + 1 + MaxWriteLpns
  <1>1. /\ Len(free_line_list) \in Nat /\ gc_thres_lines_high \in Nat /\ MaxWriteLpns \in Nat
        /\ Idx(wp) \in Nat /\ Idx(wp) < pgs_per_line /\ pgs_per_line \in Nat
    BY GcAssumption, HostAssumption, IdxRange, Sizes DEF TypeInv, TypeOK
  <1> DEFINE n == Len(free_line_list)
             h == gc_thres_lines_high
             P == pgs_per_line
  <1>2. (h + 2) * P <= (n + 1) * P
    BY <1>1, Monotone
  <1>3. (h + 2) * P = h * P + 2 * P /\ (n + 1) * P = P * (n + 1)
    BY <1>1
  <1>4. h * P \in Int /\ P * (n + 1) \in Int /\ MaxWriteLpns <= h * P
    BY <1>1 DEF SpareSpace
  <1> QED
    BY <1>1, <1>2, <1>3, <1>4 DEF Room

(* What cleaning has been over is within the line.                          *)
LEMMA MovedRange ==
  ASSUME gc \in GcType
  PROVE  /\ Moved \in Nat /\ Moved <= pgs_per_line
         /\ gc.pg < pgs_per_blk => Moved < pgs_per_line
  <1> DEFINE N == nchs
             L == luns_per_ch
             K == pgs_per_blk
             b == gc.ch * L + gc.lun
  <1>1. /\ N \in Nat \ {0} /\ L \in Nat \ {0} /\ K \in Nat \ {0}
        /\ gc.ch \in 0 .. N - 1 /\ gc.lun \in 0 .. L - 1 /\ gc.pg \in 0 .. K
    BY GeometryAssumption DEF GcType, Ch, Lun
  <1>2. b \in Nat /\ b <= N * L - 1
    <2>1. gc.ch * L <= (N - 1) * L
      BY <1>1, Monotone
    <2>2. (N - 1) * L = N * L - L /\ gc.ch * L \in Nat /\ N * L \in Nat
      BY <1>1
    <2> QED
      BY <1>1, <2>1, <2>2
  <1>3. b * K <= (N * L - 1) * K
    <2>1. N * L - 1 \in Int
      BY <1>1
    <2> QED
      BY <1>1, <1>2, <2>1, Monotone
  <1>4. (N * L - 1) * K = K * (L * N) - K
    BY <1>1
  <1>5. b * K \in Nat /\ K * (L * N) \in Nat
    BY <1>1, <1>2
  <1>6. Moved = b * K + gc.pg /\ pgs_per_line = K * (L * N)
    BY DEF Moved, pgs_per_line
  <1> QED
    BY <1>1, <1>3, <1>4, <1>5, <1>6

LEMMA MovedStep ==
  ASSUME gc \in GcType, gc' = [gc EXCEPT !.pg = @ + 1]
  PROVE  Moved' = Moved + 1
  <1>1. gc'.ch = gc.ch /\ gc'.lun = gc.lun /\ gc'.pg = gc.pg + 1 /\ gc.pg \in Int
    BY GeometryAssumption DEF GcType
  <1>2. (gc.ch * luns_per_ch + gc.lun) * pgs_per_blk \in Int
    BY GeometryAssumption DEF GcType, Ch, Lun
  <1> QED
    BY <1>1, <1>2 DEF Moved

(* From the end of a block cleaning goes to the next, or has been over all. *)
LEMMA MovedOn ==
  ASSUME gc \in GcType, GcEraseBlock
  PROVE  \/ pc' = "gc_page" /\ Moved' = Moved
         \/ pc' = "gc_free_line" /\ Moved = pgs_per_line
  <1> DEFINE N == nchs
             L == luns_per_ch
             K == pgs_per_blk
  <1>1. /\ N \in Nat \ {0} /\ L \in Nat \ {0} /\ K \in Nat \ {0}
        /\ gc.ch \in 0 .. N - 1 /\ gc.lun \in 0 .. L - 1 /\ gc.pg = K /\ pc = "gc_page"
    BY GeometryAssumption DEF GcType, Ch, Lun, GcEraseBlock, BlockCleaned
  <1>2. gc.ch * L \in Int /\ (gc.ch + 1) * L = gc.ch * L + L
    BY <1>1, Distribute
  <1> DEFINE b == gc.ch * L + gc.lun
  <1>3. b \in Int /\ (b + 1) * K = b * K + K /\ b * K \in Int
    BY <1>1, <1>2, Distribute
  <1>4. Moved = (b + 1) * K
    BY <1>1, <1>3 DEF Moved
  <1>5. /\ gc.ch * L + (gc.lun + 1) = b + 1
        /\ gc.lun + 1 = L => (gc.ch + 1) * L + 0 = b + 1
    BY <1>1, <1>2
  <1>6. \/ /\ pc' = "gc_page"
           /\ gc'.ch = gc.ch /\ gc'.lun = gc.lun + 1 /\ gc'.pg = 0
        \/ /\ pc' = "gc_page" /\ gc.lun + 1 = L
           /\ gc'.ch = gc.ch + 1 /\ gc'.lun = 0 /\ gc'.pg = 0
        \/ /\ pc' = "gc_free_line" /\ gc.lun + 1 = L /\ gc.ch + 1 = N
    BY DEF GcEraseBlock, GcType
  <1>7. CASE pc' = "gc_page"
    <2>1. gc'.ch * L + gc'.lun = b + 1 /\ gc'.pg = 0
      BY <1>5, <1>6, <1>7
    <2>2. (b + 1) * K \in Int
      BY <1>1, <1>3
    <2>3. Moved' = (b + 1) * K + 0
      BY <2>1 DEF Moved
    <2> QED
      BY <1>4, <1>7, <2>2, <2>3
  <1>8. CASE pc' = "gc_free_line"
    <2>1. gc.lun + 1 = L /\ gc.ch + 1 = N
      BY <1>6, <1>8
    <2>2. b + 1 = N * L
      BY <1>2, <1>5, <2>1
    <2>3. (N * L) * K = K * (L * N)
      BY <1>1
    <2> QED
      BY <1>4, <1>8, <2>2, <2>3 DEF pgs_per_line
  <1> QED
    BY <1>6, <1>7, <1>8

LEMMA WrittenFinite == IsFiniteSet(Written) /\ Cardinality(Written) \in Nat
  <1>1. tt_pgs - 1 \in Int /\ 0 \in Int
    BY Sizes
  <1>2. IsFiniteSet(Lpn)
    BY <1>1, FS_Interval DEF Lpn
  <1>3. Written \in SUBSET Lpn
    BY DEF Written
  <1> QED
    BY <1>2, <1>3, FS_Subset, FS_CardinalityType

(* The full lines hold no more than the host writes: each of their pages is *)
(* valid, and belongs to a logical page of its own.                         *)
LEMMA FullLinesWritten ==
  ASSUME FtlInv, CountInv, HostInv, gc.victim = NULL
  PROVE  Cardinality(full_line_list) * pgs_per_line <= Cardinality(Written)
  <1>1. /\ TypeOK /\ LinesInv /\ MapInv /\ full_line_list \in SUBSET Line
        /\ NULL \notin Line /\ NULL \notin full_line_list
    BY NullAssumption DEF FtlInv, TypeInv, TypeOK
  <1>2. 0 \in Line
    BY GeometryAssumption DEF Line
  <1> DEFINE Q == OnLine(0)
             page(l, q) == [ch |-> q.ch, lun |-> q.lun, blk |-> l, pg |-> q.pg]
             S == full_line_list \X Q
             f == [t \in S |-> rmap[page(t[1], t[2])]]
  <1>3. IsFiniteSet(S) /\ Cardinality(S) = Cardinality(full_line_list) * pgs_per_line
    <2>1. IsFiniteSet(full_line_list)
      BY <1>1, LinesFinite
    <2> QED
      BY <1>2, <2>1, LineSize, FS_Product
  <1>4. ASSUME NEW l \in full_line_list, NEW q \in Q
        PROVE  /\ page(l, q) \in Ppa /\ rmap[page(l, q)] \in Written
               /\ maptbl[rmap[page(l, q)]] = page(l, q)
    <2>1. page(l, q) \in Ppa /\ page(l, q) \in OnLine(l) /\ l \in Line
      BY <1>1 DEF OnLine, Ppa
    <2>2. pg_status[page(l, q)] = "PG_VALID"
      <3>1. line_vpc[l] = pgs_per_line /\ LineExact(l)
        BY <1>1, <2>1 DEF LinesInv, CountInv
      <3> DEFINE V == {p \in OnLine(l) : pg_status[p] = "PG_VALID"}
      <3>2. Cardinality(V) = Cardinality(OnLine(l)) /\ IsFiniteSet(OnLine(l))
        BY <2>1, <3>1, LineSize DEF LineExact, Count
      <3>3. V \in SUBSET OnLine(l)
        OBVIOUS
      <3>4. OnLine(l) = V
        BY <3>2, <3>3, FS_Subset
      <3> QED
        BY <2>1, <3>4
    <2>3. ~Passed(page(l, q))
      BY <1>1, <2>1 DEF Passed
    <2>4. rmap[page(l, q)] \in Lpn /\ maptbl[rmap[page(l, q)]] = page(l, q)
      BY <1>1, <2>1, <2>2, <2>3 DEF MapInv, NoOrphan
    <2>5. rmap[page(l, q)] \in Written
      BY <2>1, <2>4, NullAssumption DEF HostInv
    <2> QED
      BY <2>1, <2>4, <2>5
  <1>5. f \in [S -> Written]
    BY <1>4
  <1>6. ASSUME NEW t \in S, NEW u \in S, f[t] = f[u] PROVE t = u
    <2>1. /\ t[1] \in full_line_list /\ t[2] \in Q /\ t = <<t[1], t[2]>>
          /\ u[1] \in full_line_list /\ u[2] \in Q /\ u = <<u[1], u[2]>>
      OBVIOUS
    <2>2. page(t[1], t[2]) = page(u[1], u[2])
      BY <1>4, <1>6, <2>1
    <2>3. /\ t[1] = u[1] /\ t[2].ch = u[2].ch /\ t[2].lun = u[2].lun /\ t[2].pg = u[2].pg
      BY <2>2
    <2>4. t[2] = u[2]
      BY <2>1, <2>3 DEF OnLine, Ppa
    <2> QED
      BY <2>1, <2>3, <2>4
  <1>7. f \in Injection(S, Written)
    BY <1>5, <1>6 DEF Injection, IsInjective
  <1>8. Cardinality(S) <= Cardinality(Written)
    BY <1>7, WrittenFinite, FS_Injection
  <1> QED
    BY <1>3, <1>8

LEMMA UnionSize ==
  ASSUME NEW S, NEW T, IsFiniteSet(S), IsFiniteSet(T)
  PROVE  /\ IsFiniteSet(S \union T) /\ Cardinality(S \union T) \in Nat
         /\ Cardinality(S \union T) <= Cardinality(S) + Cardinality(T)
  <1>1. S \intersect T \in SUBSET S
    OBVIOUS
  <1>2. IsFiniteSet(S \intersect T)
    BY <1>1, FS_Subset
  <1>3. /\ Cardinality(S \intersect T) \in Nat
        /\ Cardinality(S) \in Nat /\ Cardinality(T) \in Nat
    BY <1>2, FS_CardinalityType
  <1>4. /\ IsFiniteSet(S \union T)
        /\ Cardinality(S \union T)
             = Cardinality(S) + Cardinality(T) - Cardinality(S \intersect T)
    BY FS_Union
  <1>5. Cardinality(S \union T) \in Nat
    BY <1>4, FS_CardinalityType
  <1> QED
    BY <1>3, <1>4, <1>5

(* While a command waits for free lines there is a victim to clean: with    *)
(* none, all lines but the free and the current one would be full, and they *)
(* would hold more than the host writes.                                    *)
LEMMA VictimExists ==
  ASSUME FtlInv, SizesInv, CountInv, HostInv, SpareSpace, gc.victim = NULL,
         Len(free_line_list) <= gc_thres_lines_high
  PROVE  victim_line_pq # {}
  <1> SUFFICES ASSUME victim_line_pq = {} PROVE FALSE
    OBVIOUS
  <1>1. /\ LinesInv /\ free_line_list \in Seq(Line) /\ FreeLines \in SUBSET Line
        /\ full_line_list \in SUBSET Line /\ NULL \notin Line
    BY NullAssumption DEF FtlInv, TypeInv, TypeOK, FreeLines
  <1> DEFINE A == FreeLines
             F == full_line_list
             C == {wp.curline}
  <1>2. /\ IsFiniteSet(A) /\ IsFiniteSet(F) /\ IsFiniteSet(C) /\ Cardinality(C) = 1
        /\ Cardinality(A) \in Nat /\ Cardinality(F) \in Nat
    BY <1>1, LinesFinite, FS_Singleton
  <1>3. Cardinality(A) = Len(free_line_list)
    BY <1>1, LengthIsSize, FreeIsElems DEF LinesInv
  <1>4. /\ IsFiniteSet(A \union F) /\ Cardinality(A \union F) \in Nat
        /\ Cardinality(A \union F) <= Cardinality(A) + Cardinality(F)
    BY <1>2, UnionSize
  <1>5. /\ IsFiniteSet((A \union F) \union C) /\ Cardinality((A \union F) \union C) \in Nat
        /\ Cardinality((A \union F) \union C) <= Cardinality(A \union F) + 1
    <2>1. ASSUME NEW U, IsFiniteSet(U)
          PROVE  /\ IsFiniteSet(U \union C) /\ Cardinality(U \union C) \in Nat
                 /\ Cardinality(U \union C) <= Cardinality(U) + 1
      BY <1>2, <2>1, UnionSize
    <2> QED
      BY <1>4, <2>1
  <1>6. Line \in SUBSET ((A \union F) \union C)
    BY <1>1 DEF LinesInv
  <1>7. Cardinality(Line) = blks_per_pl
    <2>1. /\ 0 \in Int /\ blks_per_pl - 1 \in Int /\ ~(0 > blks_per_pl - 1)
          /\ blks_per_pl - 1 - 0 + 1 = blks_per_pl
      BY GeometryAssumption
    <2> QED
      BY <2>1, FS_Interval DEF Line
  <1>8. blks_per_pl - gc_thres_lines_high - 1 <= Cardinality(F)
    <2>1. blks_per_pl <= Cardinality((A \union F) \union C)
      BY <1>5, <1>6, <1>7, FS_Subset
    <2>2. /\ blks_per_pl \in Nat /\ gc_thres_lines_high \in Nat
          /\ Len(free_line_list) \in Nat
      BY <1>1, GeometryAssumption, GcAssumption
    <2> QED
      BY <1>2, <1>3, <1>4, <1>5, <2>1, <2>2
  <1> DEFINE b == blks_per_pl - gc_thres_lines_high - 1
             P == pgs_per_line
  <1>9. b * P <= Cardinality(F) * P /\ b * P \in Int /\ Cardinality(F) * P \in Int
    <2>1. b \in Int /\ P \in Nat
      BY GeometryAssumption, GcAssumption, Sizes
    <2> QED
      BY <1>2, <1>8, <2>1, Monotone
  <1>10. Cardinality(F) * P <= Cardinality(Written)
    BY FullLinesWritten
  <1>11. Cardinality(Written) < b * P /\ Cardinality(Written) \in Nat
    BY WrittenFinite DEF SpareSpace
  <1> QED
    BY <1>9, <1>10, <1>11

LEMMA SpaceInit == SpareSpace /\ Init => SpaceInv
  <1> SUFFICES ASSUME SpareSpace, Init PROVE SpaceInv
    OBVIOUS
  <1>1. /\ pgs_per_line \in Nat \ {0} /\ blks_per_pl \in Nat \ {0}
        /\ gc_thres_lines_high \in Nat /\ Cardinality(Written) \in Nat
    BY GeometryAssumption, GcAssumption, Sizes, WrittenFinite
  <1> DEFINE P == pgs_per_line
             B == blks_per_pl
             b == blks_per_pl - gc_thres_lines_high - 1
  <1>2. B >= 2
    <2>1. Cardinality(Written) < b * P /\ b * P \in Int /\ 0 * P = 0
      BY <1>1 DEF SpareSpace
    <2>2. b <= 0 => b * P <= 0 * P
      BY <1>1, Monotone
    <2> QED
      BY <1>1, <2>1, <2>2
  <1>3. Room = P * B
    <2>1. Len(free_line_list) + 1 = B
      BY <1>1 DEF Init, ssd_init_write_pointer
    <2>2. Idx(wp) = 0
      <3>1. 0 * luns_per_ch = 0 /\ 0 * nchs = 0
        BY GeometryAssumption
      <3> QED
        BY <3>1 DEF Init, ssd_init_write_pointer, Idx
    <2>3. P * B \in Int
      BY <1>1
    <2> QED
      BY <2>1, <2>2, <2>3 DEF Room
  <1>4. 2 * P <= B * P /\ B * P = P * B /\ P * B \in Int
    BY <1>1, <1>2, Monotone
  <1>5. Room >= P + 1
    BY <1>1, <1>3, <1>4
  <1> QED
    BY <1>5 DEF SpaceInv, Init

LEMMA SpaceNext ==
  SpareSpace /\ FtlInv /\ SizesInv /\ CountInv /\ HostInv /\ SpaceInv /\ [Next]_vars
    => SpaceInv'
  <1> SUFFICES ASSUME SpareSpace, FtlInv, SizesInv, CountInv, HostInv, SpaceInv, [Next]_vars
               PROVE  SpaceInv'
    OBVIOUS
  <1>0. /\ TypeInv /\ Cursors /\ gc \in GcType /\ free_line_list \in Seq(Line)
        /\ lpn \in Int /\ end_lpn \in Int /\ pgs_per_line \in Nat \ {0} /\ Room \in Int
        /\ MaxWriteLpns \in Nat /\ pc # "oops"
    BY RoomType, Sizes, HostAssumption
       DEF FtlInv, TypeInv, TypeOK, GcType, Lpn, SpaceInv
  <1>1. ASSUME UNCHANGED <<free_line_list, wp>> PROVE Room' = Room
    BY <1>1 DEF Room, Idx, pgs_per_line
  <1>2. ASSUME gc' = gc PROVE Moved' = Moved
    BY <1>2 DEF Moved
  <1>3. ASSUME NEW first \in HostLpns, NEW last \in HostLpns, StartWrite(first, last)
        PROVE  SpaceInv'
    <2>1. pc = "idle" /\ pc' \in {"check_gc", "gc_high"} /\ Room' = Room
      BY <1>1, <1>3 DEF StartWrite, listVars
    <2> QED
      BY <2>1 DEF SpaceInv
  <1>4. CASE GcHighStep \/ CheckGcRun
    <2>1. /\ pc \in {"gc_high", "check_gc"} /\ pc' = "gc_page" /\ Room' = Room
          /\ gc'.ch = 0 /\ gc'.lun = 0 /\ gc'.pg = 0
      <3>1. /\ pc \in {"gc_high", "check_gc"} /\ wp' = wp
            /\ \E force, ret : select_victim_line(force, ret)
        BY <1>4 DEF GcHighStep, CheckGcRun
      <3>2. PICK force, ret : select_victim_line(force, ret)
        BY <3>1
      <3>3. /\ pc' = "gc_page" /\ free_line_list' = free_line_list
            /\ gc'.ch = 0 /\ gc'.lun = 0 /\ gc'.pg = 0
        BY <3>2 DEF select_victim_line
      <3> QED
        BY <1>1, <3>1, <3>3
    <2>2. Moved' = 0
      <3>1. 0 * luns_per_ch = 0 /\ 0 * pgs_per_blk = 0
        BY GeometryAssumption
      <3> QED
        BY <2>1, <3>1 DEF Moved
    <2> QED
      BY <1>0, <2>1, <2>2 DEF SpaceInv
  <1>5. CASE GcHighLeave
    <2>1. /\ pc = "gc_high" /\ pc' = "invalidate" /\ Room' = Room
          /\ lpn' = lpn /\ end_lpn' = end_lpn
      BY <1>1, <1>5 DEF GcHighLeave, listVars
    <2>2. end_lpn - lpn < MaxWriteLpns
      BY <2>1 DEF HostInv, Writing
    <2>3. gc.victim = NULL
      BY <1>0, <2>1 DEF Cursors, NoGc
    <2>4. Len(free_line_list) >= gc_thres_lines_high + 1
      <3>1. Len(free_line_list) \in Nat /\ gc_thres_lines_high \in Nat
            /\ free_line_cnt = Len(free_line_list)
        BY <1>0, GcAssumption DEF SizesInv
      <3>2. ASSUME Len(free_line_list) <= gc_thres_lines_high PROVE FALSE
        <4>1. victim_line_pq # {}
          BY <2>3, <3>2, VictimExists
        <4>2. should_gc_high
          BY <3>1, <3>2 DEF should_gc_high
        <4> QED
          BY <1>5, <4>1, <4>2 DEF GcHighLeave, NoVictim, WorthCleaning
      <3> QED
        BY <3>1, <3>2
    <2>5. Room >= pgs_per_line + 1 + MaxWriteLpns
      BY <1>0, <2>4, RoomOfFree
    <2> QED
      BY <1>0, <2>1, <2>2, <2>5 DEF SpaceInv
  <1>6. CASE CheckGcSkip
    <2>1. pc = "check_gc" /\ pc' = "idle" /\ Room' = Room
      BY <1>1, <1>6 DEF CheckGcSkip, listVars
    <2> QED
      BY <2>1 DEF SpaceInv
  <1>7. CASE InvalidateOld
    <2>1. /\ pc = "invalidate" /\ pc' = "program" /\ lpn' = lpn /\ end_lpn' = end_lpn
          /\ UNCHANGED <<free_line_list, wp>>
      BY <1>7 DEF InvalidateOld, mark_page_invalid, listVars
    <2> QED
      BY <1>1, <2>1 DEF SpaceInv
  <1>8. CASE WriteNew
    <2>1. PICK next \in {"invalidate", "check_gc"} :
            /\ pc = "program" /\ ProgramPage(lpn, next)
            /\ next = "invalidate" => lpn' = lpn + 1 /\ end_lpn' = end_lpn
      BY <1>8 DEF WriteNew
    <2>2. lpn <= end_lpn /\ Room >= pgs_per_line + 2 + (end_lpn - lpn)
      BY <2>1 DEF HostInv, Writing, SpaceInv
    <2>3. Room' = Room - 1 /\ pc' = next
      BY <1>0, <2>1, <2>2, ProgramRoom
    <2>4. Room' >= pgs_per_line + 2 + (end_lpn - (lpn + 1)) /\ Room' >= pgs_per_line + 1
      BY <1>0, <2>2, <2>3
    <2> QED
      BY <2>1, <2>3, <2>4 DEF SpaceInv
  <1>9. CASE GcMovePage
    <2>1. /\ pc = "gc_page" /\ ProgramPage(rmap[GcPpa], "gc_page")
          /\ gc.pg < pgs_per_blk /\ gc' = [gc EXCEPT !.pg = @ + 1]
      <3>1. gc.pg \in 0 .. pgs_per_blk
        BY <1>0 DEF GcType
      <3> QED
        BY <1>9, <3>1, GeometryAssumption DEF GcMovePage, BlockCleaned
    <2>2. Moved \in Nat /\ Moved < pgs_per_line
      BY <1>0, <2>1, MovedRange
    <2>3. Room + Moved >= pgs_per_line + 1
      BY <2>1 DEF SpaceInv
    <2>4. Room' = Room - 1 /\ pc' = "gc_page"
      BY <1>0, <2>1, <2>2, <2>3, ProgramRoom
    <2>5. Moved' = Moved + 1
      BY <1>0, <2>1, MovedStep
    <2> QED
      BY <1>0, <2>2, <2>3, <2>4, <2>5 DEF SpaceInv
  <1>10. CASE GcSkipPage
    <2>1. /\ pc = "gc_page" /\ pc' = pc /\ gc' = [gc EXCEPT !.pg = @ + 1]
          /\ UNCHANGED <<free_line_list, wp>>
      BY <1>10 DEF GcSkipPage, listVars
    <2>2. Moved \in Nat /\ Room + Moved >= pgs_per_line + 1 /\ Room' = Room
      BY <1>0, <1>1, <2>1, MovedRange DEF SpaceInv
    <2>3. Moved' = Moved + 1
      BY <1>0, <2>1, MovedStep
    <2> QED
      BY <1>0, <2>1, <2>2, <2>3 DEF SpaceInv
  <1>11. CASE GcEraseBlock
    <2>1. pc = "gc_page" /\ Room' = Room
      BY <1>1, <1>11 DEF GcEraseBlock, listVars
    <2>2. \/ pc' = "gc_page" /\ Moved' = Moved
          \/ pc' = "gc_free_line" /\ Moved = pgs_per_line
      BY <1>0, <1>11, MovedOn
    <2> QED
      BY <1>0, <2>1, <2>2 DEF SpaceInv
  <1>12. CASE GcFreeLine
    <2>1. /\ pc = "gc_free_line" /\ pc' \in {"idle", "gc_high"} /\ gc.victim \in Line
          /\ free_line_list' = Append(free_line_list, gc.victim) /\ wp' = wp
      BY <1>0, <1>12 DEF GcFreeLine, GcType, Cursors
    <2>2. Len(free_line_list') = Len(free_line_list) + 1 /\ Len(free_line_list) \in Nat
      BY <1>0, <2>1
    <2>3. Room' = Room + pgs_per_line
      <3> DEFINE n == Len(free_line_list)
      <3>1. Room' = pgs_per_line * ((n + 1) + 1) - Idx(wp)
        BY <2>1, <2>2 DEF Room, Idx, pgs_per_line
      <3>2. pgs_per_line * ((n + 1) + 1) = pgs_per_line * (n + 1) + pgs_per_line
        BY <1>0, <2>2
      <3>3. pgs_per_line * (n + 1) \in Int /\ Idx(wp) \in Nat
        BY <1>0, <2>2, IdxRange
      <3> QED
        BY <1>0, <3>1, <3>2, <3>3 DEF Room
    <2>4. Room >= 1
      BY <2>1 DEF SpaceInv
    <2> QED
      BY <1>0, <2>1, <2>3, <2>4 DEF SpaceInv
  <1>13. CASE UNCHANGED vars
    BY <1>1, <1>2, <1>13 DEF vars, SpaceInv
  <1> QED
    BY <1>3, <1>4, <1>5, <1>6, <1>7, <1>8, <1>9, <1>10, <1>11, <1>12, <1>13
       DEF Next, HostWrite, FtlStep

(* The write pointer always has a line to write to, in commands and in the  *)
(* copies of cleaning, if the host leaves enough logical pages unwritten:   *)
(* the NULL of get_next_free_line is never followed (ftl.c,                 *)
(* ssd_advance_write_pointer, "wpp->curline is always our next-to-write     *)
(* super-block").                                                           *)
THEOREM CurlineKept == ASSUME SpareSpace PROVE Spec => []CurlineNeverNull
  <1>1. Init => SpaceInv
    BY SpaceInit
  <1>2. FtlInv /\ SizesInv /\ CountInv /\ HostInv /\ SpaceInv /\ [Next]_vars => SpaceInv'
    BY SpaceNext
  <1>3. FtlInv /\ SpaceInv => CurlineNeverNull
    BY NullAssumption, NewPage DEF SpaceInv, CurlineNeverNull
  <1>4. Spec => []SizesInv
    BY SizesInit, SizesNext, FtlInvariant, PTL DEF Spec
  <1>5. Spec => []HostInv
    BY HostInit, HostNext, FtlInvariant, PTL DEF Spec
  <1> QED
    BY <1>1, <1>2, <1>3, <1>4, <1>5, FtlInvariant, CountInvariant, PTL DEF Spec
=============================================================================
