----------------------------- MODULE NandFlash -----------------------------
(***************************************************************************)
(* What a flash translation layer promises to the host and owes the NAND   *)
(* array: a logical page, once written, is always found somewhere; a page  *)
(* is programmed only when erased, and in order within its block; a block  *)
(* is erased only when no logical page lives in it.  ftl.c implements this *)
(* (module Ftl).                                                           *)
(***************************************************************************)
EXTENDS Naturals

CONSTANTS
  Lpn,              \* logical pages
  Ppa, Block,       \* physical pages [ch, lun, blk, pg] and blocks [ch, lun, blk]
  UNMAPPED_PPA

VARIABLES
  loc,              \* where each logical page lives, or UNMAPPED_PPA
  programmed        \* the physical pages written since their block was erased

InBlock(b) == {p \in Ppa : p.ch = b.ch /\ p.lun = b.lun /\ p.blk = b.blk}

Init ==
  /\ loc = [l \in Lpn |-> UNMAPPED_PPA]
  /\ programmed = {}

(* Logical page l gets a new home: its data is new, or copied by a cleaner. *)
Program(l, p) ==
  /\ p \notin programmed
  /\ \A q \in InBlock(p) : q.pg < p.pg => q \in programmed
  /\ loc' = [loc EXCEPT ![l] = p]
  /\ programmed' = programmed \union {p}

Erase(b) ==
  /\ \A l \in Lpn : loc[l] \notin InBlock(b)
  /\ programmed' = programmed \ InBlock(b)
  /\ UNCHANGED loc

Next ==
  \/ \E l \in Lpn, p \in Ppa : Program(l, p)
  \/ \E b \in Block : Erase(b)

Spec == Init /\ [][Next]_<<loc, programmed>>
=============================================================================
