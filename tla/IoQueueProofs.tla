---------------------------- MODULE IoQueueProofs ----------------------------
(* The request table of an I/O worker keeps the promise of IoService, for   *)
(* every table size, every number of commands, all latencies and every      *)
(* interleaving of the dispatcher with the worker that walks the list       *)
(* without a lock, if the compiler merges the two flag stores.              *)
(*                                                                          *)
(* The worker may be at an entry that has been reclaimed, given out again   *)
(* or not yet linked.  What saves it is that a free entry is either done,   *)
(* and passed over, or has never been used, and then no used entry points   *)
(* to it; and that an entry it works on is not done, hence not reclaimed.   *)
(*                                                                          *)
(* The second half is about the lists: they stay whole, and in order of     *)
(* target time but for requests that are due, for every build.              *)
EXTENDS IoQueue, FiniteSetTheorems, TLAPS

-----------------------------------------------------------------------------
(* The inductive invariant: fr is the set of the free entries, io that of   *)
(* the requests, rm that of the requests the reclaimer has passed.          *)

Used(e) == req[e] # NoReq

(* The worker is at entry e. *)
At(e) == wpc # "round" /\ curr = e

Types ==
  /\ req \in [Entry -> Req \union {NoReq}] /\ nsecs_target \in [Entry -> 0 .. MaxTime]
  /\ is_completed \in [Entry -> BOOLEAN] /\ is_copied \in [Entry -> BOOLEAN]
  /\ next \in [Entry -> Entry \union {None}] /\ prev \in [Entry -> Entry \union {None}]
  /\ {io_seq, io_seq_end, entry, pos, last_entry, curr} \subseteq Entry \union {None}
  /\ proc_io_nsecs \in 0 .. MaxTime /\ now \in 0 .. MaxTime /\ curr_nsecs \in 0 .. now
  /\ dpc \in {"idle", "flags", "links", "search", "reclaim"}
  /\ wpc \in {"round", "time", "completed?", "copied?", "copied", "due?", "completed", "next"}
  /\ state \in [Req -> {"new", "accepted", "refused"}]
  /\ target \in [Req -> 0 .. MaxTime]
  /\ copies \in [Req -> 0 .. 1] /\ posts \in [Req -> 0 .. 1]

(* An entry is in one place. *)
Places(fr, io) ==
  /\ fr \subseteq Entry /\ io \subseteq Entry /\ fr \intersect io = {}
  /\ entry \notin fr /\ entry \notin io
  /\ \A e \in Entry : e \in fr \/ e \in io \/ e = entry
  /\ entry # None <=> dpc \in {"flags", "links", "search"}

(* The free list is closed, and nothing points to its head. *)
FreeList(fr) ==
  /\ free_seq \in fr /\ free_seq_end \in fr /\ next[free_seq_end] = None
  /\ \A e \in fr : /\ next[e] = None => e = free_seq_end
                   /\ next[e] # None => next[e] \in fr /\ next[e] # free_seq
  /\ \A d, e \in fr : next[d] = next[e] => d = e

(* The list of requests is closed both ways, and prev is next reversed. *)
IoList(io) ==
  /\ \A e \in io : next[e] # None => next[e] \in io /\ prev[next[e]] = e
  /\ \A e \in io : prev[e] # None => prev[e] \in io /\ next[prev[e]] = e
  /\ io_seq # None => /\ io_seq \in io /\ prev[io_seq] = None
                      /\ io_seq_end \in io /\ next[io_seq_end] = None

(* The entry that is being enqueued. *)
NewEntry(io) ==
  /\ dpc \in {"flags", "links"} => next[entry] = free_seq
  /\ dpc = "search" => /\ next[entry] = None /\ prev[entry] = None
                       /\ io_seq # None => pos \in io \union {None}

(* What the reclaimer has passed is done, and is the front of the list. *)
Passed(io, rm) ==
  /\ rm \subseteq io
  /\ dpc # "reclaim" => rm = {} /\ last_entry = None
  /\ dpc = "reclaim" =>
       /\ pos \in io \union {None} /\ pos \notin rm
       /\ last_entry = None => rm = {} /\ pos = io_seq
       /\ last_entry # None => last_entry \in rm /\ io_seq \in rm /\ next[last_entry] = pos
  /\ \A e \in rm : /\ e # last_entry => next[e] \in rm
                   /\ prev[e] = None \/ prev[e] \in rm
                   /\ is_completed[e] /\ is_copied[e]

(* The entries never used are the last of the array and the first of the    *)
(* free list; a used one never points to them, and is done while free.      *)
Fresh(fr) ==
  /\ \A e \in Entry : ~Used(e) =>
       /\ e \in fr /\ free_seq <= e /\ ~Used(free_seq)
       /\ e + 1 \in Entry => ~Used(e + 1) /\ next[e] = e + 1
  /\ \A e \in fr : Used(e) =>
       /\ next[e] = None \/ Used(next[e])
       /\ is_completed[e] /\ is_copied[e]

(* Where the worker may be, and what it knows of the entry it is at. *)
Worker ==
  /\ wpc # "round" => curr \in Entry /\ Used(curr)
  /\ dpc \in {"flags", "links"} /\ At(entry) => Used(free_seq)
  /\ dpc = "flags" /\ At(entry) => is_completed[entry]
  /\ wpc \in {"copied?", "copied", "due?", "completed"} => ~is_completed[curr]
  /\ wpc = "copied" => ~is_copied[curr]
  /\ wpc \in {"due?", "completed"} => is_copied[curr]

(* The flags of an entry tell what has been done for its command. *)
Served(e) ==
  /\ copies[req[e]] = IF is_copied[e] \/ (At(e) /\ wpc = "copied") THEN 1 ELSE 0
  /\ posts[req[e]] = IF is_completed[e] \/ (At(e) /\ wpc = "completed") THEN 1 ELSE 0
  /\ is_completed[e] => is_copied[e]

Untouched(r) == copies[r] = 0 /\ posts[r] = 0

Data(fr) ==
  /\ \A e \in Entry \ fr : /\ req[e] \in Req /\ state[req[e]] = "accepted"
                           /\ nsecs_target[e] = target[req[e]]
                           /\ dpc = "flags" /\ e = entry => Untouched(req[e])
                           /\ ~(dpc = "flags" /\ e = entry) => Served(e)
  /\ \A d, e \in Entry \ fr : req[d] = req[e] => d = e
  /\ \A r \in Req : state[r] = "new" => Untouched(r)

IInv(fr, io, rm) ==
  /\ Types /\ Places(fr, io) /\ FreeList(fr) /\ IoList(io) /\ NewEntry(io)
  /\ Passed(io, rm) /\ Fresh(fr) /\ Worker /\ Data(fr)

TableInv == \E fr, io, rm \in SUBSET Entry : IInv(fr, io, rm)

-----------------------------------------------------------------------------
(* Initially *)

LEMMA TableInit == Init => TableInv
  <1> SUFFICES ASSUME Init PROVE IInv(Entry, {}, {})
    BY DEF TableInv
  <1> USE TableAssumption, LoadAssumption DEF Init, Entry, None
  <1>1. Types
    BY DEF Types, Req, NoReq
  <1>2. Places(Entry, {})
    BY DEF Places
  <1>3. FreeList(Entry)
    BY DEF FreeList
  <1>4. IoList({}) /\ NewEntry({}) /\ Passed({}, {})
    BY DEF IoList, NewEntry, Passed
  <1>5. Fresh(Entry)
    BY DEF Fresh, Used, NoReq
  <1>6. Worker /\ Data(Entry)
    BY DEF Worker, Data, Untouched, At
  <1> QED
    BY <1>1, <1>2, <1>3, <1>4, <1>5, <1>6 DEF IInv

-----------------------------------------------------------------------------
(* The worker *)

Lists(fr, io) == Places(fr, io) /\ FreeList(fr) /\ IoList(io) /\ NewEntry(io)

(* A step of the worker leaves the lists alone. *)
LEMMA WorkerFrame ==
  ASSUME NEW fr, NEW io, Lists(fr, io), UNCHANGED <<next, prev, heads, disp>>
  PROVE  Lists(fr, io)'
  BY DEF Lists, Places, FreeList, IoList, NewEntry, heads, disp

(* A step of the worker that sets no flag and posts nothing. *)
LEMMA QuietStep ==
  ASSUME NEW fr, NEW io, NEW rm, IInv(fr, io, rm),
         UNCHANGED <<table, heads, disp, hist>>,
         wpc \notin {"copied", "completed"}, wpc' \notin {"copied", "completed"},
         Types', Worker'
  PROVE  IInv(fr, io, rm)'
  <1> USE DEF table, heads, disp, hist
  <1>1. Lists(fr, io)'
    BY WorkerFrame DEF IInv, Lists
  <1>2. Passed(io, rm)'
    BY DEF IInv, Passed
  <1>3. Fresh(fr)'
    BY DEF IInv, Fresh, Used
  <1>4. Data(fr)'
    BY DEF IInv, Data, Served, Untouched
  <1> QED
    BY <1>1, <1>2, <1>3, <1>4 DEF IInv, Lists

(* Where the worker goes from an entry: never to one that was never used,   *)
(* nor to one that is being enqueued.                                       *)
LEMMA Onward ==
  ASSUME NEW fr, NEW io, NEW rm, IInv(fr, io, rm), wpc # "round", next[curr] # None
  PROVE  next[curr] \in Entry /\ Used(next[curr]) /\ next[curr] # entry
  <1>1. curr \in Entry /\ Used(curr) /\ At(curr)
    BY DEF IInv, Worker, At
  <1>2. CASE curr \in fr
    BY <1>1, <1>2 DEF IInv, FreeList, Fresh, Places
  <1>3. CASE curr \in io
    <2>1. next[curr] \in io
      BY <1>3 DEF IInv, IoList
    <2> QED
      BY <2>1 DEF IInv, Places, Fresh
  <1>4. CASE curr = entry
    <2>1. dpc \in {"flags", "links"}
      BY <1>1, <1>4 DEF IInv, Places, NewEntry, None, Entry
    <2>2. next[curr] = free_seq /\ free_seq \in fr
      BY <1>4, <2>1 DEF IInv, NewEntry, FreeList
    <2>3. Used(free_seq)
      BY <1>1, <1>4, <2>1 DEF IInv, Worker
    <2> QED
      BY <1>4, <2>2, <2>3 DEF IInv, Places
  <1> QED
    BY <1>1, <1>2, <1>3, <1>4 DEF IInv, Places

LEMMA StartRoundInv ==
  ASSUME NEW fr, NEW io, NEW rm, IInv(fr, io, rm), StartRound
  PROVE  IInv(fr, io, rm)'
  <1>1. /\ wpc = "round" /\ wpc' = "time" /\ curr' = io_seq /\ io_seq # None
        /\ UNCHANGED <<table, heads, proc_io_nsecs, now, disp, curr_nsecs, hist>>
    BY DEF StartRound
  <1>2. io_seq \in io /\ io_seq \in Entry /\ Used(io_seq) /\ io_seq # entry
    BY <1>1 DEF IInv, IoList, Places, Fresh
  <1>3. Types'
    BY <1>1, <1>2 DEF IInv, Types, table, heads, disp, hist
  <1>4. Worker'
    BY <1>1, <1>2 DEF Worker, At, Used, table, disp
  <1> QED
    BY <1>1, <1>3, <1>4, QuietStep

LEMMA ReadClockInv ==
  ASSUME NEW fr, NEW io, NEW rm, IInv(fr, io, rm), ReadClock
  PROVE  IInv(fr, io, rm)'
  <1>1. /\ wpc = "time" /\ wpc' = "completed?" /\ curr' = curr
        /\ curr_nsecs' = now /\ proc_io_nsecs' = now
        /\ UNCHANGED <<table, heads, now, disp, hist>>
    BY DEF ReadClock
  <1>2. Types'
    BY <1>1 DEF IInv, Types, table, heads, disp, hist
  <1>3. Worker'
    BY <1>1 DEF IInv, Worker, At, Used, table, heads, disp
  <1> QED
    BY <1>1, <1>2, <1>3, QuietStep

LEMMA TestCompletedInv ==
  ASSUME NEW fr, NEW io, NEW rm, IInv(fr, io, rm), TestCompleted
  PROVE  IInv(fr, io, rm)'
  <1>1. /\ wpc = "completed?" /\ curr' = curr
        /\ \/ wpc' = "next"
           \/ ~is_completed[curr] /\ wpc' = "copied?"
        /\ UNCHANGED <<table, heads, proc_io_nsecs, now, disp, curr_nsecs, hist>>
    BY DEF TestCompleted
  <1>2. Types'
    BY <1>1 DEF IInv, Types, table, heads, disp, hist
  <1>3. Worker'
    BY <1>1 DEF IInv, Worker, At, Used, table, heads, disp
  <1> QED
    BY <1>1, <1>2, <1>3, QuietStep

LEMMA NextRequestInv ==
  ASSUME NEW fr, NEW io, NEW rm, IInv(fr, io, rm), NextRequest
  PROVE  IInv(fr, io, rm)'
  <1>1. /\ wpc = "next" /\ curr' = next[curr]
        /\ wpc' = IF next[curr] = None THEN "round" ELSE "time"
        /\ UNCHANGED <<table, heads, proc_io_nsecs, now, disp, curr_nsecs, hist>>
    BY DEF NextRequest
  <1>2. next[curr] # None => next[curr] \in Entry /\ Used(next[curr]) /\ next[curr] # entry
    BY <1>1, Onward
  <1>3. Types'
    BY <1>1, <1>2 DEF IInv, Types, table, heads, disp, hist
  <1>4. Worker'
    BY <1>1, <1>2 DEF Worker, At, Used, table, heads, disp
  <1> QED
    BY <1>1, <1>3, <1>4, QuietStep

(* The entry the worker works on is in use, linked or about to be.          *)
LEMMA AtWork ==
  ASSUME NEW fr, NEW io, NEW rm, IInv(fr, io, rm),
         wpc \in {"copied?", "copied", "due?", "completed"}
  PROVE  /\ curr \in Entry /\ curr \notin fr /\ ~is_completed[curr]
         /\ ~(dpc = "flags" /\ curr = entry) /\ Served(curr) /\ At(curr)
         /\ req[curr] \in Req /\ state[req[curr]] = "accepted"
         /\ nsecs_target[curr] = target[req[curr]]
         /\ curr \notin rm
         /\ \A e \in Entry \ fr : e # curr => req[e] # req[curr]
  <1>1. curr \in Entry /\ Used(curr) /\ At(curr) /\ ~is_completed[curr]
    BY DEF IInv, Worker, At
  <1>2. curr \notin fr /\ ~(dpc = "flags" /\ curr = entry) /\ curr \notin rm
    BY <1>1 DEF IInv, Fresh, Worker, Passed
  <1> QED
    BY <1>1, <1>2 DEF IInv, Data

LEMMA CopyDataInv ==
  ASSUME NEW fr, NEW io, NEW rm, IInv(fr, io, rm), CopyData
  PROVE  IInv(fr, io, rm)'
  <1>1. /\ wpc = "copied?" /\ curr' = curr
        /\ UNCHANGED <<table, heads, proc_io_nsecs, now, disp, curr_nsecs, state, target, posts>>
    BY DEF CopyData
  <1>2. CASE is_copied[curr]
    <2>1. wpc' = "due?" /\ copies' = copies
      BY <1>2 DEF CopyData
    <2>2. Types'
      BY <1>1, <2>1 DEF IInv, Types, table, heads, disp
    <2>3. Worker'
      BY <1>1, <1>2, <2>1 DEF IInv, Worker, At, Used, table, heads, disp
    <2> QED
      BY <1>1, <2>1, <2>2, <2>3, QuietStep DEF hist
  <1>3. CASE ~is_copied[curr]
    <2> DEFINE r == req[curr]
    <2>1. wpc' = "copied" /\ copies' = [copies EXCEPT ![r] = @ + 1]
      BY <1>3 DEF CopyData
    <2>2. /\ r \in Req /\ copies[r] = 0 /\ copies \in [Req -> 0 .. 1]
          /\ curr \in Entry \ fr /\ state[r] = "accepted"
          /\ \A e \in Entry \ fr : e # curr => req[e] # r
      BY <1>1, <1>3, AtWork DEF IInv, Types, Served
    <2>3. copies'[r] = 1 /\ \A q \in Req : q # r => copies'[q] = copies[q]
      BY <2>1, <2>2
    <2>4. Types'
      BY <1>1, <2>1, <2>2 DEF IInv, Types, table, heads, disp
    <2>5. Worker'
      BY <1>1, <1>3, <2>1 DEF IInv, Worker, At, Used, table, heads, disp
    <2>6. Lists(fr, io)'
      BY <1>1, WorkerFrame DEF IInv, Lists, table
    <2>7. Passed(io, rm)' /\ Fresh(fr)'
      BY <1>1 DEF IInv, Passed, Fresh, Used, table, heads, disp
    <2>8. Data(fr)'
      <3>1. ASSUME NEW e \in Entry \ fr
            PROVE  /\ req[e] \in Req /\ state[req[e]] = "accepted"
                   /\ nsecs_target[e] = target[req[e]]
                   /\ dpc = "flags" /\ e = entry => Untouched(req[e])'
                   /\ ~(dpc = "flags" /\ e = entry) => Served(e)'
        <4>1. CASE e = curr
          BY <1>1, <1>3, <2>1, <2>2, <2>3, <4>1, AtWork DEF Served, At, table, heads, disp
        <4>2. CASE e # curr
          <5>1. copies'[req[e]] = copies[req[e]] /\ req[e] # r
            BY <2>2, <2>3, <4>2 DEF IInv, Data
          <5> QED
            BY <1>1, <2>1, <4>2, <5>1 DEF IInv, Data, Served, Untouched, At, table, heads, disp
        <4> QED
          BY <4>1, <4>2
      <3>2. \A q \in Req : state[q] = "new" => Untouched(q)'
        BY <1>1, <2>2, <2>3 DEF IInv, Data, Untouched
      <3> QED
        BY <1>1, <3>1, <3>2 DEF IInv, Data, table, disp
    <2> QED
      BY <2>4, <2>5, <2>6, <2>7, <2>8 DEF IInv, Lists
  <1> QED
    BY <1>2, <1>3

LEMMA PostCompletionInv ==
  ASSUME NEW fr, NEW io, NEW rm, IInv(fr, io, rm), PostCompletion
  PROVE  IInv(fr, io, rm)'
  <1>1. /\ wpc = "due?" /\ curr' = curr
        /\ UNCHANGED <<table, heads, proc_io_nsecs, now, disp, curr_nsecs, state, target, copies>>
    BY DEF PostCompletion
  <1>2. CASE wpc' = "round" /\ posts' = posts
    <2>1. Types'
      BY <1>1, <1>2 DEF IInv, Types, table, heads, disp
    <2>2. Worker'
      BY <1>1, <1>2 DEF IInv, Worker, At, Used, table, heads, disp
    <2> QED
      BY <1>1, <1>2, <2>1, <2>2, QuietStep DEF hist
  <1>3. CASE wpc' = "completed" /\ posts' = [posts EXCEPT ![req[curr]] = @ + 1]
    <2> DEFINE r == req[curr]
    <2>2. /\ r \in Req /\ posts[r] = 0 /\ posts \in [Req -> 0 .. 1]
          /\ curr \in Entry \ fr /\ state[r] = "accepted"
          /\ \A e \in Entry \ fr : e # curr => req[e] # r
      BY <1>1, AtWork DEF IInv, Types, Served
    <2>3. posts'[r] = 1 /\ \A q \in Req : q # r => posts'[q] = posts[q]
      BY <1>3, <2>2
    <2>4. Types'
      BY <1>1, <1>3, <2>2 DEF IInv, Types, table, heads, disp
    <2>5. Worker'
      BY <1>1, <1>3 DEF IInv, Worker, At, Used, table, heads, disp
    <2>6. Lists(fr, io)'
      BY <1>1, WorkerFrame DEF IInv, Lists, table
    <2>7. Passed(io, rm)' /\ Fresh(fr)'
      BY <1>1 DEF IInv, Passed, Fresh, Used, table, heads, disp
    <2>8. Data(fr)'
      <3>1. ASSUME NEW e \in Entry \ fr
            PROVE  /\ req[e] \in Req /\ state[req[e]] = "accepted"
                   /\ nsecs_target[e] = target[req[e]]
                   /\ dpc = "flags" /\ e = entry => Untouched(req[e])'
                   /\ ~(dpc = "flags" /\ e = entry) => Served(e)'
        <4>1. CASE e = curr
          BY <1>1, <1>3, <2>2, <2>3, <4>1, AtWork DEF Served, At, table, heads, disp
        <4>2. CASE e # curr
          <5>1. posts'[req[e]] = posts[req[e]] /\ req[e] # r
            BY <2>2, <2>3, <4>2 DEF IInv, Data
          <5> QED
            BY <1>1, <1>3, <4>2, <5>1 DEF IInv, Data, Served, Untouched, At, table, heads, disp
        <4> QED
          BY <4>1, <4>2
      <3>2. \A q \in Req : state[q] = "new" => Untouched(q)'
        BY <1>1, <2>2, <2>3 DEF IInv, Data, Untouched
      <3> QED
        BY <1>1, <3>1, <3>2 DEF IInv, Data, table, disp
    <2> QED
      BY <2>4, <2>5, <2>6, <2>7, <2>8 DEF IInv, Lists
  <1> QED
    BY <1>2, <1>3 DEF PostCompletion

LEMMA SetCopiedInv ==
  ASSUME NEW fr, NEW io, NEW rm, IInv(fr, io, rm), SetCopied
  PROVE  IInv(fr, io, rm)'
  <1>1. /\ wpc = "copied" /\ wpc' = "due?" /\ curr' = curr
        /\ is_copied' = [is_copied EXCEPT ![curr] = TRUE]
        /\ UNCHANGED <<req, nsecs_target, is_completed, next, prev, heads, proc_io_nsecs, now, disp,
                       curr_nsecs, hist>>
    BY DEF SetCopied
  <1>2. curr \in Entry \ fr /\ Served(curr) /\ ~is_completed[curr]
    BY <1>1, AtWork
  <1>3. /\ is_copied'[curr]
        /\ \A e \in Entry : e # curr => (is_copied'[e] <=> is_copied[e])
    BY <1>1, <1>2 DEF IInv, Types
  <1>4. Types'
    BY <1>1 DEF IInv, Types, heads, disp, hist
  <1>5. Worker'
    BY <1>1, <1>2, <1>3 DEF IInv, Worker, At, Used, heads, disp
  <1>6. Lists(fr, io)'
    BY <1>1, WorkerFrame DEF IInv, Lists
  <1>7. Passed(io, rm)'
    BY <1>1, <1>3 DEF IInv, Passed, Places, heads, disp
  <1>8. Fresh(fr)'
    BY <1>1, <1>2, <1>3 DEF IInv, Fresh, Used, Places, heads, disp
  <1>9. Data(fr)'
    <2>1. ASSUME NEW e \in Entry \ fr, ~(dpc = "flags" /\ e = entry)
          PROVE  Served(e)'
      <3>1. CASE e = curr
        BY <1>1, <1>2, <1>3, <3>1, AtWork DEF IInv, Worker, Served, At, hist
      <3>2. CASE e # curr
        <4>1. Served(e)
          BY <2>1 DEF IInv, Data
        <4> QED
          BY <1>1, <1>3, <3>2, <4>1 DEF Served, At, hist
      <3> QED
        BY <3>1, <3>2
    <2> QED
      BY <1>1, <2>1 DEF IInv, Data, Untouched, disp, hist
  <1> QED
    BY <1>4, <1>5, <1>6, <1>7, <1>8, <1>9 DEF IInv, Lists

LEMMA SetCompletedInv ==
  ASSUME NEW fr, NEW io, NEW rm, IInv(fr, io, rm), SetCompleted
  PROVE  IInv(fr, io, rm)'
  <1>1. /\ wpc = "completed" /\ wpc' = "next" /\ curr' = curr
        /\ is_completed' = [is_completed EXCEPT ![curr] = TRUE]
        /\ UNCHANGED <<req, nsecs_target, is_copied, next, prev, heads, proc_io_nsecs, now, disp,
                       curr_nsecs, hist>>
    BY DEF SetCompleted
  <1>2. curr \in Entry \ fr /\ Served(curr) /\ ~is_completed[curr]
    BY <1>1, AtWork
  <1>3. /\ is_completed'[curr]
        /\ \A e \in Entry : e # curr => (is_completed'[e] <=> is_completed[e])
    BY <1>1, <1>2 DEF IInv, Types
  <1>4. Types'
    BY <1>1 DEF IInv, Types, heads, disp, hist
  <1>5. Worker'
    BY <1>1, <1>2, <1>3 DEF IInv, Worker, At, Used, heads, disp
  <1>6. Lists(fr, io)'
    BY <1>1, WorkerFrame DEF IInv, Lists
  <1>7. Passed(io, rm)'
    BY <1>1, <1>3 DEF IInv, Passed, Places, heads, disp
  <1>8. Fresh(fr)'
    BY <1>1, <1>2, <1>3 DEF IInv, Fresh, Used, Places, heads, disp
  <1>9. Data(fr)'
    <2>1. ASSUME NEW e \in Entry \ fr, ~(dpc = "flags" /\ e = entry)
          PROVE  Served(e)'
      <3>1. CASE e = curr
        BY <1>1, <1>2, <1>3, <3>1, AtWork DEF IInv, Worker, Served, At, hist
      <3>2. CASE e # curr
        <4>1. Served(e)
          BY <2>1 DEF IInv, Data
        <4> QED
          BY <1>1, <1>3, <3>2, <4>1 DEF Served, At, hist
      <3> QED
        BY <3>1, <3>2
    <2> QED
      BY <1>1, <2>1 DEF IInv, Data, Untouched, disp, hist
  <1> QED
    BY <1>4, <1>5, <1>6, <1>7, <1>8, <1>9 DEF IInv, Lists

-----------------------------------------------------------------------------
(* The dispatcher *)

LEMMA OtherCommandInv ==
  ASSUME NEW fr, NEW io, NEW rm, IInv(fr, io, rm), OtherCommand
  PROVE  IInv(fr, io, rm)'
  <1>1. /\ dpc = "idle" /\ dpc' = "reclaim" /\ pos' = io_seq
        /\ UNCHANGED <<table, heads, proc_io_nsecs, now, entry, last_entry, work, hist>>
    BY DEF OtherCommand
  <1> USE <1>1 DEF IInv, table, heads, work, hist
  <1>2. Types' /\ Places(fr, io)' /\ FreeList(fr)' /\ IoList(io)' /\ NewEntry(io)'
    BY DEF Types, Places, FreeList, IoList, NewEntry
  <1>3. Passed(io, rm)'
    BY DEF Passed, IoList
  <1>4. Fresh(fr)' /\ Worker'
    BY DEF Fresh, Worker, Used, At
  <1>5. Data(fr)'
    BY DEF Data, Served, Untouched, At
  <1> QED
    BY <1>2, <1>3, <1>4, <1>5

LEMMA DropRequestInv ==
  ASSUME NEW fr, NEW io, NEW rm, IInv(fr, io, rm), NEW r \in Req, DropRequest(r)
  PROVE  IInv(fr, io, rm)'
  <1>1. /\ dpc = "idle" /\ dpc' = "reclaim" /\ pos' = io_seq
        /\ state' = [state EXCEPT ![r] = "refused"]
        /\ UNCHANGED <<table, heads, proc_io_nsecs, now, entry, last_entry, work, target, copies,
                       posts>>
    BY DEF DropRequest
  <1>2. state[r] = "new" /\ state \in [Req -> {"new", "accepted", "refused"}]
    BY DEF DropRequest, IsNext, IInv, Types, Req
  <1>3. state'[r] = "refused" /\ \A q \in Req : q # r => state'[q] = state[q]
    BY <1>1, <1>2
  <1> USE <1>1 DEF IInv, table, heads, work
  <1>4. Types' /\ Places(fr, io)' /\ FreeList(fr)' /\ IoList(io)' /\ NewEntry(io)'
    BY <1>2 DEF Types, Places, FreeList, IoList, NewEntry
  <1>5. Passed(io, rm)'
    BY DEF Passed, IoList
  <1>6. Fresh(fr)' /\ Worker'
    BY DEF Fresh, Worker, Used, At
  <1>7. Data(fr)'
    BY <1>2, <1>3 DEF Data, Served, Untouched, At
  <1> QED
    BY <1>4, <1>5, <1>6, <1>7

LEMMA TickInv ==
  ASSUME NEW fr, NEW io, NEW rm, IInv(fr, io, rm), Tick
  PROVE  IInv(fr, io, rm)'
  <1>1. /\ now < MaxTime /\ now' = now + 1
        /\ UNCHANGED <<table, heads, proc_io_nsecs, disp, work, hist>>
    BY DEF Tick
  <1> USE <1>1 DEF IInv, table, heads, disp, work, hist
  <1>2. Types'
    BY LoadAssumption DEF Types
  <1>3. Places(fr, io)' /\ FreeList(fr)' /\ IoList(io)' /\ NewEntry(io)' /\ Passed(io, rm)'
    BY DEF Places, FreeList, IoList, NewEntry, Passed
  <1>4. Fresh(fr)' /\ Worker'
    BY DEF Fresh, Worker, Used, At
  <1>5. Data(fr)'
    BY DEF Data, Served, Untouched, At
  <1> QED
    BY <1>2, <1>3, <1>4, <1>5

LEMMA StutterInv ==
  ASSUME NEW fr, NEW io, NEW rm, IInv(fr, io, rm), UNCHANGED vars
  PROVE  IInv(fr, io, rm)'
  BY DEF IInv, vars, Types, Places, FreeList, IoList, NewEntry, Passed, Fresh, Worker, Data,
         Served, Untouched, Used, At

LEMMA SearchBackInv ==
  ASSUME NEW fr, NEW io, NEW rm, IInv(fr, io, rm), SearchBack
  PROVE  IInv(fr, io, rm)'
  <1>1. /\ dpc = "search" /\ io_seq # None /\ pos # None /\ pos' = prev[pos]
        /\ UNCHANGED <<table, heads, proc_io_nsecs, now, dpc, entry, last_entry, work, hist>>
    BY DEF SearchBack, ListEmpty
  <1>2. pos \in io /\ prev[pos] \in io \union {None}
    BY <1>1 DEF IInv, NewEntry, IoList
  <1> USE <1>1 DEF IInv, table, heads, work, hist
  <1>3. Types'
    BY <1>2 DEF Types, Places
  <1>4. Places(fr, io)' /\ FreeList(fr)' /\ IoList(io)' /\ NewEntry(io)' /\ Passed(io, rm)'
    BY <1>2 DEF Places, FreeList, IoList, NewEntry, Passed
  <1>5. Fresh(fr)' /\ Worker'
    BY DEF Fresh, Worker, Used, At
  <1>6. Data(fr)'
    BY DEF Data, Served, Untouched, At
  <1> QED
    BY <1>3, <1>4, <1>5, <1>6

(* The reclaimer goes on to the next request: it has not passed it yet.     *)
LEMMA ReclaimNextInv ==
  ASSUME NEW fr, NEW io, NEW rm, IInv(fr, io, rm), ReclaimNext,
         NEW R, R = rm \union {pos}
  PROVE  IInv(fr, io, R)'
  <1>1. /\ R = rm \union {pos} /\ dpc = "reclaim" /\ pos # None /\ is_completed[pos] /\ is_copied[pos]
        /\ last_entry' = pos /\ pos' = next[pos]
        /\ UNCHANGED <<table, heads, proc_io_nsecs, now, dpc, entry, work, hist>>
    BY DEF ReclaimNext, Reclaimable
  <1>2. /\ pos \in io /\ pos \in Entry /\ pos \notin rm
        /\ next[pos] \in io \union {None}
        /\ next[pos] # None => prev[next[pos]] = pos
    BY <1>1 DEF IInv, Passed, IoList, Places
  <1>3. CASE last_entry = None
    <2>1. rm = {} /\ pos = io_seq /\ prev[pos] = None
      BY <1>1, <1>3 DEF IInv, Passed, IoList
    <2>2. next[pos] # pos
      BY <1>2, <2>1 DEF None, Entry
    <2>3. Passed(io, R)'
      <3>1. R = {pos} /\ is_completed' = is_completed /\ is_copied' = is_copied
            /\ next' = next /\ prev' = prev /\ dpc' = dpc /\ io_seq' = io_seq
        BY <1>1, <2>1 DEF table, heads
      <3> QED
        BY <1>1, <1>2, <2>1, <2>2, <3>1 DEF Passed
    <2> QED
      BY <1>1, <1>2, <2>3 DEF IInv, Types, Places, FreeList, IoList, NewEntry, Fresh, Worker,
                              Data, Served, Untouched, Used, At, table, heads, work, hist
  <1>4. CASE last_entry # None
    <2>1. /\ last_entry \in rm /\ io_seq \in rm /\ next[last_entry] = pos
          /\ rm \subseteq io
          /\ prev[pos] = last_entry
      BY <1>1, <1>2, <1>4 DEF IInv, Passed, IoList
    <2>2. next[pos] # pos /\ next[pos] \notin rm
      <3>1. next[pos] # pos
        BY <1>1, <1>2, <2>1
      <3>2. ASSUME next[pos] \in rm PROVE FALSE
        <4>1. prev[next[pos]] = pos /\ (prev[next[pos]] = None \/ prev[next[pos]] \in rm)
          BY <1>2, <3>2 DEF IInv, Passed, None, Entry, Places
        <4> QED
          BY <1>1, <1>2, <4>1
      <3> QED
        BY <3>1, <3>2
    <2>3. Passed(io, R)'
      <3>1. /\ is_completed' = is_completed /\ is_copied' = is_copied
            /\ next' = next /\ prev' = prev /\ dpc' = dpc /\ io_seq' = io_seq
        BY <1>1 DEF table, heads
      <3>2. \A e \in rm : /\ e # last_entry => next[e] \in rm
                          /\ prev[e] = None \/ prev[e] \in rm
                          /\ is_completed[e] /\ is_copied[e]
        BY DEF IInv, Passed
      <3>3. \A e \in R : /\ e # pos => next[e] \in R
                         /\ prev[e] = None \/ prev[e] \in R
                         /\ is_completed[e] /\ is_copied[e]
        BY <1>1, <2>1, <3>2
      <3>4. /\ next[pos] \in io \union {None} /\ next[pos] \notin R
            /\ pos \in R /\ io_seq \in R
            /\ R \subseteq io
        BY <1>2, <2>1, <2>2
      <3>5. \A e \in R : (/\ e # last_entry => next[e] \in R
                          /\ prev[e] = None \/ prev[e] \in R
                          /\ is_completed[e] /\ is_copied[e])'
        <4>1. SUFFICES ASSUME NEW e \in R
                       PROVE  /\ e # pos => next[e] \in R
                              /\ prev[e] = None \/ prev[e] \in R
                              /\ is_completed[e] /\ is_copied[e]
          BY <1>1, <3>1
        <4> QED
          BY <3>3
      <3>6. pos' \in io \union {None} /\ pos' \notin R /\ last_entry' \in R /\ io_seq' \in R
            /\ next'[last_entry'] = pos' /\ dpc' = "reclaim" /\ last_entry' # None
        BY <1>1, <3>1, <3>4
      <3> QED
        BY <3>4, <3>5, <3>6 DEF Passed
    <2> QED
      BY <1>1, <1>2, <2>3 DEF IInv, Types, Places, FreeList, IoList, NewEntry, Fresh, Worker,
                              Data, Served, Untouched, Used, At, table, heads, work, hist
  <1> QED
    BY <1>3, <1>4

(* The head of the free list becomes the new entry. *)
LEMMA TakeEntryInv ==
  ASSUME NEW fr, NEW io, NEW rm, IInv(fr, io, rm),
         NEW r \in Req, NEW t \in Targets, t <= MaxTime, TakeEntry(r, t),
         NEW F, F = fr \ {free_seq}
  PROVE  IInv(F, io, rm)'
  <1>1. /\ dpc = "idle" /\ dpc' = "flags" /\ next[free_seq] \in Entry
        /\ entry' = free_seq /\ free_seq' = next[free_seq]
        /\ req' = [req EXCEPT ![free_seq] = r]
        /\ nsecs_target' = [nsecs_target EXCEPT ![free_seq] = t]
        /\ state' = [state EXCEPT ![r] = "accepted"]
        /\ target' = [target EXCEPT ![r] = t]
        /\ UNCHANGED <<is_completed, is_copied, next, prev, free_seq_end, io_seq, io_seq_end,
                       proc_io_nsecs, now, pos, last_entry, work, copies, posts>>
    BY DEF TakeEntry
  <1>2. state[r] = "new" /\ state \in [Req -> {"new", "accepted", "refused"}]
    BY DEF TakeEntry, IsNext, IInv, Types, Req
  <1>3. t \in 0 .. MaxTime
    <2>1. now \in Nat /\ MaxTime \in Nat /\ Latency \subseteq Nat
      BY LoadAssumption DEF IInv, Types
    <2>2. t = 0 \/ \E l \in Latency : t = now + l
      BY DEF Targets
    <2>3. t \in Nat
      BY <2>1, <2>2
    <2> QED
      BY <2>1, <2>3
  <1>4. /\ free_seq \in fr /\ free_seq \in Entry /\ free_seq' \in F
        /\ free_seq \notin io /\ entry = None /\ free_seq # None
        /\ F \subseteq fr /\ fr \subseteq Entry
    BY <1>1 DEF IInv, FreeList, Places, None, Entry
  <1>5. /\ req'[free_seq] = r /\ nsecs_target'[free_seq] = t
        /\ \A e \in Entry : e # free_seq => req'[e] = req[e] /\ nsecs_target'[e] = nsecs_target[e]
        /\ state'[r] = "accepted" /\ target'[r] = t
        /\ \A q \in Req : q # r => state'[q] = state[q] /\ target'[q] = target[q]
    BY <1>1, <1>2, <1>4 DEF IInv, Types
  <1>6. Types'
    BY <1>1, <1>2, <1>3, <1>4 DEF IInv, Types, work
  <1>7. Places(F, io)'
    BY <1>1, <1>4 DEF IInv, Places, None, Entry
  <1>8. FreeList(F)'
    <2>1. next[free_seq] # None
      BY <1>1 DEF None, Entry
    <2> QED
      BY <1>1, <1>4, <2>1 DEF IInv, FreeList
  <1>9. IoList(io)' /\ NewEntry(io)' /\ Passed(io, rm)'
    BY <1>1 DEF IInv, IoList, NewEntry, Passed
  <1>10. Fresh(F)'
    <2>1. r # NoReq
      BY DEF Req, NoReq
    <2>2. \A e \in Entry : Used(e) => Used(e)'
      BY <1>5, <2>1 DEF Used
    <2>3. ASSUME NEW e \in Entry, ~Used(e)'
          PROVE  /\ e \in F /\ free_seq' <= e /\ ~Used(free_seq)'
                 /\ e + 1 \in Entry => ~Used(e + 1)' /\ next[e] = e + 1
      <3>1. e # free_seq /\ ~Used(e)
        BY <1>5, <2>1, <2>3 DEF Used
      <3>2. /\ e \in fr /\ free_seq <= e /\ ~Used(free_seq)
            /\ e + 1 \in Entry => ~Used(e + 1) /\ next[e] = e + 1
            /\ free_seq + 1 \in Entry => ~Used(free_seq + 1) /\ next[free_seq] = free_seq + 1
        BY <1>4, <3>1 DEF IInv, Fresh
      <3>3. free_seq < e /\ free_seq + 1 \in Entry /\ free_seq + 1 <= e
        BY <1>4, <3>1, <3>2, TableAssumption DEF Entry
      <3>4. free_seq' = free_seq + 1 /\ req[free_seq + 1] = NoReq
        BY <1>1, <3>2, <3>3 DEF Used
      <3>5. req'[free_seq'] = NoReq
        BY <1>4, <1>5, <3>3, <3>4 DEF Entry
      <3>6. e + 1 \in Entry => ~Used(e + 1)'
        BY <1>5, <3>2, <3>3, <1>4 DEF Used, Entry
      <3> QED
        BY <1>4, <3>1, <3>2, <3>3, <3>4, <3>5, <3>6 DEF Used
    <2>4. ASSUME NEW e \in F, Used(e)'
          PROVE  (next[e] = None \/ Used(next[e])') /\ is_completed[e] /\ is_copied[e]
      <3>1. e \in fr /\ e \in Entry /\ Used(e)
        BY <1>4, <1>5, <2>4 DEF Used
      <3>2. (next[e] = None \/ Used(next[e])) /\ is_completed[e] /\ is_copied[e]
        BY <3>1 DEF IInv, Fresh
      <3>3. next[e] = None \/ next[e] \in Entry
        BY <3>1 DEF IInv, Types
      <3> QED
        BY <1>1, <2>2, <3>2, <3>3 DEF Used
    <2>5. UNCHANGED <<next, is_completed, is_copied>>
      BY <1>1
    <2> QED
      BY <2>3, <2>4, <2>5 DEF Fresh, Used
  <1>11. Worker'
    <2>1. \A e \in Entry : Used(e) => Used(e)'
      BY <1>5 DEF Used, Req, NoReq
    <2>2. ASSUME At(free_seq)
          PROVE  Used(free_seq') /\ is_completed[free_seq]
      BY <1>1, <1>4, <2>2 DEF IInv, Worker, Fresh, At, None, Entry
    <2>3. free_seq' \in Entry
      BY <1>1
    <2>4. Used(free_seq') => Used(free_seq)'
      BY <1>1, <1>5, <2>3 DEF Used, Req, NoReq
    <2>5. UNCHANGED <<is_completed, is_copied, wpc, curr>>
      BY <1>1 DEF work
    <2>6. At(entry)' => At(free_seq)
      BY <1>1, <2>5 DEF At
    <2>7. wpc # "round" => curr \in Entry /\ Used(curr)'
      BY <2>1, <2>5 DEF IInv, Worker, Used
    <2>8. At(entry)' => Used(free_seq)' /\ is_completed'[entry']
      BY <1>1, <2>2, <2>4, <2>5, <2>6
    <2> QED
      BY <2>5, <2>7, <2>8 DEF IInv, Worker, Used
  <1>12. Data(F)'
    <2>1. UNCHANGED <<is_completed, is_copied, copies, posts, wpc, curr>>
      BY <1>1 DEF work
    <2>2. ASSUME NEW e \in Entry \ fr
          PROVE  /\ e # free_seq /\ req'[e] = req[e] /\ req[e] \in Req /\ req[e] # r
                 /\ state'[req'[e]] = "accepted" /\ nsecs_target'[e] = target'[req'[e]]
                 /\ Served(e)'
      <3>1. /\ req[e] \in Req /\ state[req[e]] = "accepted" /\ nsecs_target[e] = target[req[e]]
            /\ Served(e)
        BY <1>1 DEF IInv, Data
      <3>2. e # free_seq /\ req[e] # r /\ req'[e] = req[e] /\ nsecs_target'[e] = nsecs_target[e]
        BY <1>2, <1>4, <1>5, <3>1
      <3> QED
        BY <1>5, <2>1, <3>1, <3>2 DEF Served, At
    <2>3. Untouched(r)'
      BY <1>2, <2>1 DEF IInv, Data, Untouched
    <2>4. \A d, e \in Entry \ F : req'[d] = req'[e] => d = e
      BY <1>5, <2>2 DEF IInv, Data
    <2>5. \A q \in Req : state'[q] = "new" => Untouched(q)'
      BY <1>5, <2>1 DEF IInv, Data, Untouched
    <2>6. ASSUME NEW e \in Entry \ F
          PROVE  (/\ req[e] \in Req /\ state[req[e]] = "accepted"
                  /\ nsecs_target[e] = target[req[e]]
                  /\ dpc = "flags" /\ e = entry => Untouched(req[e])
                  /\ ~(dpc = "flags" /\ e = entry) => Served(e))'
      <3>1. CASE e = free_seq
        BY <1>1, <1>5, <2>3, <3>1 DEF Untouched
      <3>2. CASE e # free_seq
        BY <1>1, <2>2, <3>2
      <3> QED
        BY <3>1, <3>2
    <2> QED
      BY <2>4, <2>5, <2>6 DEF Data
  <1> QED
    BY <1>6, <1>7, <1>8, <1>9, <1>10, <1>11, <1>12 DEF IInv

LEMMA ClearFlagsInv ==
  ASSUME NEW fr, NEW io, NEW rm, IInv(fr, io, rm), FlagStoresMerged, ClearFlags
  PROVE  IInv(fr, io, rm)'
  <1>1. /\ dpc = "flags" /\ dpc' = "links"
        /\ is_completed' = [is_completed EXCEPT ![entry] = FALSE]
        /\ is_copied' = [is_copied EXCEPT ![entry] = FALSE]
        /\ UNCHANGED <<req, nsecs_target, next, prev, heads, proc_io_nsecs, now, entry, pos,
                       last_entry, work, hist>>
    BY DEF ClearFlags, IInv, Types
  <1>2. entry \in Entry /\ entry \notin fr /\ fr \subseteq Entry /\ rm = {}
    BY <1>1 DEF IInv, Types, Places, Passed
  <1>3. /\ ~is_completed'[entry] /\ ~is_copied'[entry]
        /\ \A e \in Entry : e # entry => is_completed'[e] = is_completed[e]
                                         /\ is_copied'[e] = is_copied[e]
    BY <1>1, <1>2 DEF IInv, Types
  <1>4. wpc \in {"copied?", "copied", "due?", "completed"} => curr # entry
    BY <1>1 DEF IInv, Worker, At
  <1>5. Types'
    BY <1>1, <1>2 DEF IInv, Types, heads, work, hist
  <1>6. Lists(fr, io)' /\ Passed(io, rm)'
    BY <1>1, <1>2 DEF IInv, Lists, Places, FreeList, IoList, NewEntry, Passed, heads
  <1>7. Fresh(fr)'
    BY <1>1, <1>2, <1>3 DEF IInv, Fresh, Used, heads
  <1>8. Worker'
    BY <1>1, <1>3, <1>4 DEF IInv, Worker, Used, At, heads, work
  <1>9. Data(fr)'
    <2>1. ASSUME NEW e \in Entry \ fr
          PROVE  Served(e)'
      <3>1. CASE e = entry
        BY <1>1, <1>3, <1>4, <2>1, <3>1 DEF IInv, Data, Served, Untouched, At, work, hist
      <3>2. CASE e # entry
        <4>1. Served(e) /\ is_completed'[e] = is_completed[e] /\ is_copied'[e] = is_copied[e]
          BY <1>3, <2>1, <3>2 DEF IInv, Data
        <4> QED
          BY <1>1, <4>1 DEF Served, At, work, hist
      <3> QED
        BY <3>1, <3>2
    <2> QED
      BY <1>1, <2>1 DEF IInv, Data, Untouched, hist
  <1> QED
    BY <1>5, <1>6, <1>7, <1>8, <1>9 DEF IInv, Lists

LEMMA ClearLinksInv ==
  ASSUME NEW fr, NEW io, NEW rm, IInv(fr, io, rm), ClearLinks
  PROVE  IInv(fr, io, rm)'
  <1>1. /\ dpc = "links" /\ dpc' = "search" /\ pos' = io_seq_end
        /\ prev' = [prev EXCEPT ![entry] = None]
        /\ next' = [next EXCEPT ![entry] = None]
        /\ UNCHANGED <<req, nsecs_target, is_completed, is_copied, heads, proc_io_nsecs, now,
                       entry, last_entry, work, hist>>
    BY DEF ClearLinks
  <1>2. /\ entry \in Entry /\ entry \notin fr /\ entry \notin io /\ rm = {} /\ last_entry = None
        /\ fr \subseteq Entry /\ io \subseteq Entry
    BY <1>1 DEF IInv, Types, Places, Passed
  <1>3. /\ next'[entry] = None /\ prev'[entry] = None
        /\ \A e \in Entry : e # entry => next'[e] = next[e] /\ prev'[e] = prev[e]
    BY <1>1, <1>2 DEF IInv, Types
  <1>4. Types'
    BY <1>1 DEF IInv, Types, heads, work, hist
  <1>5. Places(fr, io)' /\ NewEntry(io)' /\ Passed(io, rm)'
    BY <1>1, <1>2, <1>3 DEF IInv, Places, NewEntry, IoList, Passed, heads
  <1>6. FreeList(fr)'
    BY <1>1, <1>2, <1>3 DEF IInv, FreeList, heads
  <1>7. IoList(io)'
    BY <1>1, <1>2, <1>3 DEF IInv, IoList, heads
  <1>8. Fresh(fr)'
    BY <1>1, <1>2, <1>3 DEF IInv, Fresh, Used, heads
  <1>9. Worker'
    BY <1>1 DEF IInv, Worker, Used, At, work
  <1>10. Data(fr)'
    BY <1>1 DEF IInv, Data, Served, Untouched, At, work, hist
  <1> QED
    BY <1>4, <1>5, <1>6, <1>7, <1>8, <1>9, <1>10 DEF IInv

(* The new entry is linked: it is a request now.  Wherever it goes, the     *)
(* list of requests stays closed both ways.                                 *)
LEMMA LinkEntryInv ==
  ASSUME NEW fr, NEW io, NEW rm, IInv(fr, io, rm), LinkEntry,
         NEW I, I = io \union {entry}
  PROVE  IInv(fr, I, rm)'
  <1>1. /\ dpc = "search" /\ dpc' = "reclaim" /\ entry' = None /\ pos' = io_seq'
        /\ UNCHANGED <<req, nsecs_target, is_completed, is_copied, free_seq, free_seq_end,
                       proc_io_nsecs, now, last_entry, work, hist>>
    BY DEF LinkEntry
  <1>2. /\ entry \in Entry /\ entry \notin fr /\ entry \notin io /\ rm = {} /\ last_entry = None
        /\ fr \subseteq Entry /\ io \subseteq Entry /\ fr \intersect io = {} /\ None \notin Entry
        /\ next[entry] = None /\ prev[entry] = None
        /\ next \in [Entry -> Entry \union {None}] /\ prev \in [Entry -> Entry \union {None}]
    BY <1>1 DEF IInv, Types, Places, Passed, NewEntry, None, Entry
  <1>3. /\ \A e \in Entry \ I : next'[e] = next[e]
        /\ next' \in [Entry -> Entry \union {None}] /\ prev' \in [Entry -> Entry \union {None}]
        /\ io_seq' \in I /\ io_seq_end' \in Entry
        /\ IoList(I)'
    <2>1. CASE io_seq = None
      <3>1. io_seq' = entry /\ io_seq_end' = entry /\ next' = next /\ prev' = prev
        BY <2>1 DEF LinkEntry, ListEmpty
      <3> QED
        BY <1>2, <3>1 DEF IInv, IoList
    <2>2. CASE io_seq # None /\ pos = None
      <3>1. /\ io_seq' = entry /\ io_seq_end' = io_seq_end
            /\ prev' = [prev EXCEPT ![io_seq] = entry]
            /\ next' = [next EXCEPT ![entry] = io_seq]
        BY <2>2 DEF LinkEntry, ListEmpty
      <3>2. io_seq \in io /\ prev[io_seq] = None /\ io_seq_end \in io /\ next[io_seq_end] = None
        BY <2>2 DEF IInv, IoList
      <3>3. /\ prev'[io_seq] = entry /\ next'[entry] = io_seq
            /\ \A e \in Entry : /\ e # io_seq => prev'[e] = prev[e]
                                /\ e # entry => next'[e] = next[e]
        BY <1>2, <3>1, <3>2
      <3>4. \A e \in io : /\ next[e] # None => next[e] \in io /\ prev[next[e]] = e
                          /\ prev[e] # None => prev[e] \in io /\ next[prev[e]] = e
        BY DEF IInv, IoList
      <3>5. ASSUME NEW e \in I
            PROVE  /\ next'[e] # None => next'[e] \in I /\ prev'[next'[e]] = e
                   /\ prev'[e] # None => prev'[e] \in I /\ next'[prev'[e]] = e
        <4>1. CASE e = entry
          BY <1>2, <3>2, <3>3, <4>1
        <4>2. CASE e \in io
          <5>1. next'[e] = next[e] /\ next[e] # io_seq
            BY <1>2, <3>2, <3>3, <3>4, <4>2
          <5>2. next[e] # None => next[e] \in io /\ prev'[next[e]] = e
            BY <1>2, <3>3, <3>4, <4>2, <5>1
          <5>3. e # io_seq /\ prev[e] # None => prev[e] \in io /\ next'[prev[e]] = e
            BY <1>2, <3>3, <3>4, <4>2
          <5> QED
            BY <1>2, <3>2, <3>3, <4>2, <5>1, <5>2, <5>3
        <4> QED
          BY <4>1, <4>2
      <3> QED
        BY <1>2, <3>1, <3>2, <3>3, <3>5 DEF IoList
    <2>3. CASE io_seq # None /\ pos # None
      <3>1. /\ io_seq' = io_seq
            /\ next' = [next EXCEPT ![entry] = next[pos], ![pos] = entry]
        BY <2>3 DEF LinkEntry, ListEmpty
      <3>2. io_seq \in io /\ prev[io_seq] = None /\ io_seq_end \in io /\ next[io_seq_end] = None
        BY <2>3 DEF IInv, IoList
      <3>3. pos \in io /\ pos # entry
        BY <1>1, <1>2, <2>3 DEF IInv, NewEntry
      <3>4. /\ next'[entry] = next[pos] /\ next'[pos] = entry
            /\ \A e \in Entry : e # entry /\ e # pos => next'[e] = next[e]
        BY <1>2, <3>1, <3>3
      <3>5. CASE next[pos] = None
        <4>1. prev' = [prev EXCEPT ![entry] = pos] /\ io_seq_end' = entry
          BY <2>3, <3>5 DEF LinkEntry, ListEmpty
        <4>2. prev'[entry] = pos /\ \A e \in Entry : e # entry => prev'[e] = prev[e]
          BY <1>2, <4>1
        <4>3. \A e \in I : (next[e] # None => next[e] \in I /\ prev[next[e]] = e)'
          BY <1>2, <3>3, <3>4, <3>5, <4>2 DEF IInv, IoList
        <4>4. \A e \in I : (prev[e] # None => prev[e] \in I /\ next[prev[e]] = e)'
          BY <1>2, <3>3, <3>4, <3>5, <4>2 DEF IInv, IoList
        <4> QED
          BY <1>2, <3>1, <3>2, <3>3, <3>4, <3>5, <4>1, <4>2, <4>3, <4>4 DEF IoList
      <3>6. CASE next[pos] # None
        <4> DEFINE n == next[pos]
        <4>1. prev' = [prev EXCEPT ![entry] = pos, ![n] = entry] /\ io_seq_end' = io_seq_end
          BY <2>3, <3>6 DEF LinkEntry, ListEmpty
        <4>2. n \in io /\ prev[n] = pos /\ n # entry /\ n # io_seq /\ pos # io_seq_end
          BY <1>2, <2>3, <3>2, <3>3, <3>6 DEF IInv, IoList
        <4>3. /\ prev'[entry] = pos /\ prev'[n] = entry
              /\ \A e \in Entry : e # entry /\ e # n => prev'[e] = prev[e]
          BY <1>2, <4>1, <4>2
        <4>4. \A e \in I : (next[e] # None => next[e] \in I /\ prev[next[e]] = e)'
          BY <1>2, <3>3, <3>4, <4>2, <4>3 DEF IInv, IoList
        <4>5. \A e \in I : (prev[e] # None => prev[e] \in I /\ next[prev[e]] = e)'
          BY <1>2, <3>3, <3>4, <4>2, <4>3 DEF IInv, IoList
        <4> QED
          BY <1>2, <3>1, <3>2, <3>3, <3>4, <4>1, <4>2, <4>3, <4>4, <4>5 DEF IoList
      <3> QED
        BY <3>5, <3>6
    <2> QED
      BY <2>1, <2>2, <2>3
  <1>4. Types'
    BY <1>1, <1>2, <1>3 DEF IInv, Types, work, hist
  <1>5. Places(fr, I)' /\ NewEntry(I)'
    BY <1>1, <1>2 DEF IInv, Places, NewEntry
  <1>6. Passed(I, rm)'
    BY <1>1, <1>2, <1>3 DEF Passed
  <1>7. \A e \in fr : next'[e] = next[e]
    BY <1>2, <1>3
  <1>8. FreeList(fr)'
    BY <1>1, <1>7 DEF IInv, FreeList
  <1>9. Fresh(fr)'
    BY <1>1, <1>2, <1>7 DEF IInv, Fresh, Used
  <1>10. Worker'
    BY <1>1 DEF IInv, Worker, Used, At, work
  <1>11. Data(fr)'
    BY <1>1 DEF IInv, Data, Served, Untouched, At, work, hist
  <1> QED
    BY <1>3, <1>4, <1>5, <1>6, <1>8, <1>9, <1>10, <1>11 DEF IInv

(* What was passed goes to the end of the free list. *)
LEMMA ReclaimInv ==
  ASSUME NEW fr, NEW io, NEW rm, IInv(fr, io, rm), Reclaim,
         NEW F, F = fr \union rm, NEW I, I = io \ rm
  PROVE  IInv(F, I, {})'
  <1>1. /\ dpc = "reclaim" /\ dpc' = "idle" /\ pos' = None /\ last_entry' = None
        /\ UNCHANGED <<req, nsecs_target, is_completed, is_copied, free_seq, io_seq_end,
                       proc_io_nsecs, now, entry, work, hist>>
    BY DEF Reclaim
  <1>2. Places(F, I)'
    BY <1>1 DEF IInv, Places, Passed
  <1>3. NewEntry(I)' /\ Passed(I, {})'
    BY <1>1 DEF NewEntry, Passed
  <1>4. Worker'
    BY <1>1 DEF IInv, Worker, Used, At, work
  <1>5. Data(F)'
    BY <1>1 DEF IInv, Data, Served, Untouched, At, work, hist
  <1>6. CASE last_entry = None
    <2>1. UNCHANGED <<next, prev, free_seq_end, io_seq>>
      BY <1>6 DEF Reclaim
    <2>2. rm = {} /\ F = fr /\ I = io
      BY <1>1, <1>6 DEF IInv, Passed
    <2>3. Types'
      BY <1>1, <2>1 DEF IInv, Types, work, hist
    <2>4. FreeList(fr)' /\ IoList(io)' /\ Fresh(fr)'
      BY <1>1, <2>1 DEF IInv, FreeList, IoList, Fresh, Used
    <2> QED
      BY <1>2, <1>3, <1>4, <1>5, <2>2, <2>3, <2>4 DEF IInv
  <1>7. CASE last_entry # None
    <2>1. /\ io_seq' = next[last_entry]
          /\ next' = [next EXCEPT ![last_entry] = None, ![free_seq_end] = io_seq]
          /\ prev' = [e \in Entry |-> IF e = next[last_entry] THEN None
                                      ELSE IF e = io_seq THEN free_seq_end ELSE prev[e]]
          /\ free_seq_end' = last_entry
      BY <1>7 DEF Reclaim
    <2>2. /\ fr \subseteq Entry /\ io \subseteq Entry /\ fr \intersect io = {} /\ None \notin Entry
          /\ next \in [Entry -> Entry \union {None}] /\ prev \in [Entry -> Entry \union {None}]
          /\ rm \subseteq io /\ last_entry \in rm /\ io_seq \in rm /\ io_seq # None
          /\ next[last_entry] = pos /\ pos \in io \union {None} /\ pos \notin rm
          /\ free_seq_end \in fr /\ free_seq \in fr /\ next[free_seq_end] = None
      <3>1. None \notin Entry
        BY DEF None, Entry
      <3>2. /\ fr \subseteq Entry /\ io \subseteq Entry /\ fr \intersect io = {}
            /\ next \in [Entry -> Entry \union {None}] /\ prev \in [Entry -> Entry \union {None}]
        BY <1>1 DEF IInv, Types, Places
      <3>3. /\ rm \subseteq io /\ last_entry \in rm /\ io_seq \in rm
            /\ next[last_entry] = pos /\ pos \in io \union {None} /\ pos \notin rm
        BY <1>1, <1>7 DEF IInv, Passed
      <3>4. free_seq_end \in fr /\ free_seq \in fr /\ next[free_seq_end] = None
        BY <1>1 DEF IInv, FreeList
      <3> QED
        BY <3>1, <3>2, <3>3, <3>4
    <2>3. prev[io_seq] = None /\ io_seq_end \in io /\ next[io_seq_end] = None
      BY <2>2 DEF IInv, IoList
    <2>4. \A e \in rm : /\ e # last_entry => next[e] \in rm
                        /\ prev[e] = None \/ prev[e] \in rm
                        /\ is_completed[e] /\ is_copied[e]
      BY DEF IInv, Passed
    <2>5. /\ next'[last_entry] = None /\ next'[free_seq_end] = io_seq
          /\ \A e \in Entry : e # last_entry /\ e # free_seq_end => next'[e] = next[e]
          /\ next' \in [Entry -> Entry \union {None}]
      BY <2>1, <2>2
    <2>6. /\ pos # None => prev'[pos] = None
          /\ \A e \in Entry : e # pos /\ e # io_seq => prev'[e] = prev[e]
          /\ prev' \in [Entry -> Entry \union {None}]
      BY <2>1, <2>2
    <2>7. Types'
      BY <1>1, <2>1, <2>2, <2>5, <2>6 DEF IInv, Types, work, hist
    <2>8. FreeList(F)'
      <3>1. \A e \in fr : e # free_seq_end =>
              next'[e] = next[e] /\ next[e] \in fr /\ next[e] # free_seq
        BY <2>2, <2>5 DEF IInv, FreeList
      <3>2. \A e \in rm : e # last_entry => next'[e] = next[e] /\ next[e] \in rm /\ next[e] # io_seq
                                            /\ prev[next[e]] = e
        <4>1. \A e \in rm : e # last_entry => next'[e] = next[e] /\ next[e] \in rm
          BY <2>2, <2>4, <2>5
        <4>2. \A e \in rm : e # last_entry => prev[next[e]] = e
          BY <2>2, <4>1 DEF IInv, IoList
        <4> QED
          BY <2>2, <2>3, <4>1, <4>2
      <3>3. \A e \in F : /\ next'[e] = None => e = last_entry
                         /\ next'[e] # None => next'[e] \in F /\ next'[e] # free_seq
        BY <2>2, <2>5, <3>1, <3>2
      <3>4. \A d, e \in fr : next[d] = next[e] => d = e
        BY DEF IInv, FreeList
      <3>5. ASSUME NEW d \in F, NEW e \in F, next'[d] = next'[e]
            PROVE  d = e
        <4>1. CASE d = last_entry \/ e = last_entry
          BY <2>5, <3>3, <3>5, <4>1
        <4>2. CASE d # last_entry /\ e # last_entry /\ (d = free_seq_end \/ e = free_seq_end)
          BY <2>2, <2>5, <3>1, <3>2, <3>5, <4>2
        <4>3. CASE d \notin {last_entry, free_seq_end} /\ e \notin {last_entry, free_seq_end}
          BY <2>2, <3>1, <3>2, <3>4, <3>5, <4>3
        <4> QED
          BY <4>1, <4>2, <4>3
      <3> QED
        BY <1>1, <2>1, <2>2, <2>5, <3>3, <3>5 DEF FreeList
    <2>9. IoList(I)'
      <3>1. \A e \in I : e \in io /\ e \notin rm /\ e \in Entry /\ next'[e] = next[e] /\ e # io_seq
        BY <2>2, <2>5
      <3>2. ASSUME NEW e \in I, next[e] # None
            PROVE  next[e] \in I /\ next[e] # pos /\ prev[next[e]] = e
        <4>1. next[e] \in io /\ prev[next[e]] = e
          BY <3>1, <3>2 DEF IInv, IoList
        <4>2. next[e] \notin rm
          BY <2>2, <2>4, <3>1, <4>1
        <4>3. next[e] # pos
          <5>1. pos # None => prev[pos] = last_entry
            BY <2>2 DEF IInv, IoList
          <5> QED
            BY <2>2, <3>1, <3>2, <4>1, <5>1
        <4> QED
          BY <4>1, <4>2, <4>3
      <3>3. ASSUME NEW e \in I, e # pos, prev[e] # None
            PROVE  prev[e] \in I /\ next[prev[e]] = e
        <4>1. prev[e] \in io /\ next[prev[e]] = e
          BY <3>1, <3>3 DEF IInv, IoList
        <4>2. prev[e] \notin rm
          BY <2>2, <2>4, <3>1, <3>3, <4>1
        <4> QED
          BY <4>1, <4>2
      <3>4. \A e \in I : (next[e] # None => next[e] \in I /\ prev[next[e]] = e)'
        BY <2>2, <2>6, <3>1, <3>2
      <3>5. \A e \in I : (prev[e] # None => prev[e] \in I /\ next[prev[e]] = e)'
        BY <2>2, <2>6, <3>1, <3>3
      <3>6. pos # None => io_seq_end \in I
        BY <2>2, <2>3, <2>4
      <3> QED
        BY <1>1, <2>1, <2>2, <2>3, <2>6, <3>1, <3>4, <3>5, <3>6 DEF IoList
    <2>10. Fresh(F)'
      <3>1. ASSUME NEW e \in Entry, ~Used(e)
            PROVE  /\ e \in F /\ free_seq <= e /\ ~Used(free_seq)
                   /\ e + 1 \in Entry => ~Used(e + 1) /\ next'[e] = e + 1
        <4>1. /\ e \in fr /\ free_seq <= e /\ ~Used(free_seq)
              /\ e + 1 \in Entry => ~Used(e + 1) /\ next[e] = e + 1
          BY <3>1 DEF IInv, Fresh
        <4>2. e + 1 \in Entry => e # last_entry /\ e # free_seq_end
          BY <2>2, <4>1
        <4> QED
          BY <2>5, <4>1, <4>2
      <3>2. ASSUME NEW e \in F, Used(e)
            PROVE  (next'[e] = None \/ Used(next'[e])) /\ is_completed[e] /\ is_copied[e]
        <4>1. \A d \in io : Used(d)
          BY <2>2 DEF IInv, Fresh
        <4>2. CASE e \in fr
          BY <2>2, <2>5, <3>2, <4>1, <4>2 DEF IInv, Fresh
        <4>3. CASE e \in rm
          BY <2>2, <2>4, <2>5, <4>1, <4>3
        <4> QED
          BY <4>2, <4>3
      <3> QED
        BY <1>1, <3>1, <3>2 DEF Fresh, Used
    <2> QED
      BY <1>2, <1>3, <1>4, <1>5, <2>7, <2>8, <2>9, <2>10 DEF IInv
  <1> QED
    BY <1>6, <1>7

-----------------------------------------------------------------------------
(* The table *)

LEMMA TableNext ==
  ASSUME FlagStoresMerged, TableInv, [Next]_vars
  PROVE  TableInv'
  <1>1. PICK fr \in SUBSET Entry, io \in SUBSET Entry, rm \in SUBSET Entry : IInv(fr, io, rm)
    BY DEF TableInv
  <1>2. ASSUME NEW f \in SUBSET Entry, NEW i \in SUBSET Entry, NEW m \in SUBSET Entry,
               IInv(f, i, m)'
        PROVE  TableInv'
    BY <1>2 DEF TableInv, Entry
  <1>3. ASSUME NEW r \in Req, DropRequest(r) PROVE TableInv'
    BY <1>1, <1>2, <1>3, DropRequestInv
  <1>4. ASSUME NEW r \in Req, NEW t \in Targets, t <= MaxTime, TakeEntry(r, t) PROVE TableInv'
    <2>1. PICK F \in SUBSET Entry : F = fr \ {free_seq}
      OBVIOUS
    <2>2. IInv(F, io, rm)'
      BY <1>1, <1>4, <2>1, TakeEntryInv
    <2> QED
      BY <1>2, <2>2
  <1>5. CASE OtherCommand
    BY <1>1, <1>2, <1>5, OtherCommandInv
  <1>6. CASE DispatcherStep
    <2>1. CASE ClearFlags \/ ClearLinks \/ SearchBack
      BY <1>1, <1>2, <2>1, ClearFlagsInv, ClearLinksInv, SearchBackInv
    <2>2. CASE LinkEntry
      <3>1. entry \in Entry
        BY <1>1, <2>2 DEF LinkEntry, IInv, Types, Places
      <3>2. PICK I \in SUBSET Entry : I = io \union {entry}
        BY <3>1
      <3>3. IInv(fr, I, rm)'
        BY <1>1, <2>2, <3>2, LinkEntryInv
      <3> QED
        BY <1>2, <3>3
    <2>3. CASE ReclaimNext
      <3>1. pos \in Entry
        BY <1>1, <2>3 DEF ReclaimNext, Reclaimable, IInv, Types
      <3>2. PICK R \in SUBSET Entry : R = rm \union {pos}
        BY <3>1
      <3>3. IInv(fr, io, R)'
        BY <1>1, <2>3, <3>2, ReclaimNextInv
      <3> QED
        BY <1>2, <3>3
    <2>4. CASE Reclaim
      <3>1. PICK F \in SUBSET Entry, I \in SUBSET Entry : F = fr \union rm /\ I = io \ rm
        OBVIOUS
      <3>2. IInv(F, I, {})'
        BY <1>1, <2>4, <3>1, ReclaimInv
      <3> QED
        BY <1>2, <3>2
    <2> QED
      BY <1>6, <2>1, <2>2, <2>3, <2>4 DEF DispatcherStep
  <1>7. CASE WorkerStep
    <2>1. CASE StartRound \/ ReadClock \/ TestCompleted \/ NextRequest
      BY <1>1, <1>2, <2>1, StartRoundInv, ReadClockInv, TestCompletedInv, NextRequestInv
    <2>2. CASE CopyData \/ SetCopied \/ PostCompletion \/ SetCompleted
      BY <1>1, <1>2, <2>2, CopyDataInv, SetCopiedInv, PostCompletionInv, SetCompletedInv
    <2> QED
      BY <1>7, <2>1, <2>2 DEF WorkerStep
  <1>8. CASE Tick \/ UNCHANGED vars
    BY <1>1, <1>2, <1>8, TickInv, StutterInv
  <1> QED
    BY <1>3, <1>4, <1>5, <1>6, <1>7, <1>8 DEF Next, Command

LEMMA TableInvariant == ASSUME FlagStoresMerged PROVE Spec => []TableInv
  BY TableInit, TableNext, PTL DEF Spec

(* Every variable of the table keeps to its values, a command is copied and *)
(* completed once at most, and the free list never runs empty.              *)
THEOREM TableTypes == ASSUME FlagStoresMerged PROVE Spec => []TypeOK
  <1>1. TableInv => TypeOK
    <2> SUFFICES ASSUME NEW fr, NEW io, NEW rm, IInv(fr, io, rm) PROVE TypeOK
      BY DEF TableInv
    <2>1. 0 .. now \subseteq 0 .. MaxTime /\ 0 .. 1 \subseteq 0 .. 2
      BY LoadAssumption DEF IInv, Types
    <2>2. Types /\ free_seq \in Entry /\ free_seq_end \in Entry
      BY DEF IInv, FreeList, Places
    <2> QED
      BY <2>1, <2>2 DEF Types, TypeOK
  <1> QED
    BY <1>1, TableInvariant, PTL

-----------------------------------------------------------------------------
(* What is promised to a command *)

LEMMA ServiceInit == Init => Service!Init
  BY DEF Init, Service!Init

(* A step of the two threads accepts, refuses, copies or completes one      *)
(* command as it should, or none.                                           *)
LEMMA ServiceStep ==
  ASSUME TableInv, [Next]_vars
  PROVE  [Service!Next]_(Service!svars)
  <1>1. PICK fr \in SUBSET Entry, io \in SUBSET Entry, rm \in SUBSET Entry : IInv(fr, io, rm)
    BY DEF TableInv
  <1> USE DEF Service!svars, hist
  <1>2. ASSUME NEW r \in Req, DropRequest(r) PROVE Service!Next
    <2>1. Service!Refuse(r)
      BY <1>2 DEF DropRequest, IsNext, Req, Service!Refuse
    <2> QED
      BY <2>1 DEF Service!Next
  <1>3. ASSUME NEW r \in Req, NEW t \in Targets, t <= MaxTime, TakeEntry(r, t)
        PROVE  Service!Next
    <2>1. Service!Accept(r, t)
      BY <1>3 DEF TakeEntry, IsNext, Req, Service!Accept
    <2>2. t \in 0 .. MaxTime
      <3>1. now \in Nat /\ MaxTime \in Nat /\ Latency \subseteq Nat
        BY <1>1, LoadAssumption DEF IInv, Types
      <3>2. t = 0 \/ \E l \in Latency : t = now + l
        BY DEF Targets
      <3>3. t \in Nat
        BY <3>1, <3>2
      <3> QED
        BY <1>3, <3>1, <3>3
    <2> QED
      BY <2>1, <2>2 DEF Service!Next
  <1>4. CASE CopyData
    <2>1. CASE is_copied[curr]
      BY <1>4, <2>1 DEF CopyData
    <2>2. CASE ~is_copied[curr]
      <3>1. wpc = "copied?" /\ copies' = [copies EXCEPT ![req[curr]] = @ + 1]
            /\ UNCHANGED <<now, state, target, posts>>
        BY <1>4, <2>2 DEF CopyData
      <3>2. req[curr] \in Req /\ state[req[curr]] = "accepted" /\ copies[req[curr]] = 0
        BY <1>1, <2>2, <3>1, AtWork DEF Served
      <3>3. Service!Copy(req[curr])
        BY <3>1, <3>2 DEF Service!Copy
      <3> QED
        BY <3>2, <3>3 DEF Service!Next
    <2> QED
      BY <2>1, <2>2
  <1>5. CASE PostCompletion
    <2>1. CASE posts' = posts
      BY <1>5, <2>1 DEF PostCompletion
    <2>2. CASE nsecs_target[curr] <= curr_nsecs /\ posts' = [posts EXCEPT ![req[curr]] = @ + 1]
      <3>1. wpc = "due?" /\ UNCHANGED <<now, state, target, copies>>
        BY <1>5 DEF PostCompletion
      <3>2. /\ curr \in Entry /\ req[curr] \in Req /\ posts[req[curr]] = 0 /\ copies[req[curr]] = 1
            /\ nsecs_target[curr] = target[req[curr]]
        BY <1>1, <3>1, AtWork DEF IInv, Worker, Served
      <3>3. target[req[curr]] <= now
        BY <1>1, <2>2, <3>2, LoadAssumption DEF IInv, Types
      <3>4. Service!Post(req[curr])
        BY <2>2, <3>1, <3>2, <3>3 DEF Service!Post
      <3> QED
        BY <3>2, <3>4 DEF Service!Next
    <2> QED
      BY <1>5, <2>1, <2>2 DEF PostCompletion
  <1>6. CASE Tick
    BY <1>6 DEF Tick, Service!Next, Service!Tick
  <1>7. CASE OtherCommand \/ DispatcherStep
    BY <1>7 DEF OtherCommand, DispatcherStep, ClearFlags, ClearLinks, SearchBack, LinkEntry,
                ReclaimNext, Reclaim
  <1>8. CASE StartRound \/ ReadClock \/ TestCompleted \/ SetCopied \/ SetCompleted \/ NextRequest
    BY <1>8 DEF StartRound, ReadClock, TestCompleted, SetCopied, SetCompleted, NextRequest
  <1>9. CASE UNCHANGED vars
    BY <1>9 DEF vars
  <1> QED
    BY <1>2, <1>3, <1>4, <1>5, <1>6, <1>7, <1>8, <1>9 DEF Next, Command, WorkerStep

(* The request table implements the promise to a command: its data is       *)
(* copied once, then it is completed once, and not before its target time,  *)
(* wherever the worker was when entries were reclaimed and given out again. *)
THEOREM QueueImplementsService == ASSUME FlagStoresMerged PROVE Spec => ServiceSpec
  BY TableInvariant, ServiceInit, ServiceStep, PTL DEF Spec, ServiceSpec, Service!Spec

(* With one store for both flags the comment at the barrier holds: no       *)
(* command is completed whose data was not copied.  (Without, run           *)
(* io_queue_race shows one that is.)                                        *)
THEOREM CopiedBeforePosted == ASSUME FlagStoresMerged PROVE Spec => []UpdatedAtOnce
  <1> DEFINE Counts == /\ copies \in [Req -> 0 .. 1] /\ posts \in [Req -> 0 .. 1]
                       /\ UpdatedAtOnce
  <1>1. Init => Counts
    BY DEF Init, UpdatedAtOnce
  <1>2. ASSUME Counts, [Service!Next]_(Service!svars) PROVE Counts'
    <2>1. ASSUME NEW r \in Req, Service!Copy(r) PROVE Counts'
      BY <1>2, <2>1 DEF Service!Copy, UpdatedAtOnce
    <2>2. ASSUME NEW r \in Req, Service!Post(r) PROVE Counts'
      BY <1>2, <2>2 DEF Service!Post, UpdatedAtOnce
    <2>3. CASE UNCHANGED <<copies, posts>>
      BY <1>2, <2>3 DEF UpdatedAtOnce
    <2> QED
      BY <1>2, <2>1, <2>2, <2>3 DEF Service!Next, Service!svars, Service!Refuse,
                                    Service!Accept, Service!Tick
  <1> QED
    BY <1>1, <1>2, TableInvariant, ServiceStep, PTL DEF Spec

-----------------------------------------------------------------------------
(* The lists themselves.  Where the invariant above knows only sets, here   *)
(* both lists are functions from positions to entries; what is linked,      *)
(* passed or reclaimed is a position.  Nothing of it depends on the flags,  *)
(* and no assumption on the build is needed.                                *)

(* A list of n entries begins at head: s gives them in order. *)
Chain(s, n, head) ==
  /\ n \in Nat /\ s \in [0 .. n - 1 -> Entry]
  /\ \A i, j \in 0 .. n - 1 : s[i] = s[j] => i = j
  /\ head = IF n = 0 THEN None ELSE s[0]
  /\ \A i \in 0 .. n - 1 : next[s[i]] = IF i = n - 1 THEN None ELSE s[i + 1]

(* The request list has its end, and prev is next reversed. *)
BothWays(s, n) ==
  /\ n > 0 => io_seq_end = s[n - 1]
  /\ \A i \in 0 .. n - 1 : prev[s[i]] = IF i = 0 THEN None ELSE s[i - 1]

(* Every entry is in one of the lists, or is the one being enqueued. *)
Apart(s, n, f, m) ==
  /\ \A i \in 0 .. n - 1, j \in 0 .. m - 1 : s[i] # f[j]
  /\ \A i \in 0 .. n - 1 : s[i] # entry
  /\ \A j \in 0 .. m - 1 : f[j] # entry
  /\ \A e \in Entry : \/ e = entry
                      \/ \E i \in 0 .. n - 1 : e = s[i]
                      \/ \E j \in 0 .. m - 1 : e = f[j]
  /\ entry \in Entry \union {None}
  /\ entry # None <=> dpc \in {"flags", "is_copied", "links", "search"}

(* The entries the search has passed are later than the new one. *)
Searching(s, n) ==
  dpc = "search" =>
    /\ next[entry] = None /\ prev[entry] = None
    /\ n > 0 => \E k \in 0 .. n :
         /\ pos = IF k = 0 THEN None ELSE s[k - 1]
         /\ \A i \in k .. n - 1 : nsecs_target[s[i]] > nsecs_target[entry]

(* The walk for entries to reclaim is at an entry of the list or behind it. *)
Reclaiming(s, n) ==
  /\ dpc = "reclaim" => \E k \in 0 .. n :
       /\ pos = IF k = n THEN None ELSE s[k]
       /\ last_entry = IF k = 0 THEN None ELSE s[k - 1]
  /\ dpc # "reclaim" => last_entry = None

(* Of two requests out of order the one in front is due already. *)
Ordered(s, n) ==
  \A j, k \in 0 .. n - 1 :
    j < k /\ nsecs_target[s[j]] > nsecs_target[s[k]] => nsecs_target[s[j]] <= proc_io_nsecs

(* What the worker has seen of the clock. *)
Times ==
  /\ nsecs_target \in [Entry -> Nat]
  /\ now \in Nat /\ proc_io_nsecs \in Nat /\ proc_io_nsecs <= now

(* s lists the n requests, f the m free entries. *)
LInv(s, n, f, m) ==
  /\ Times /\ next \in [Entry -> Entry \union {None}] /\ prev \in [Entry -> Entry \union {None}]
  /\ dpc \in {"idle", "flags", "is_copied", "links", "search", "reclaim"}
  /\ Chain(s, n, io_seq) /\ Chain(f, m, free_seq) /\ m > 0 /\ free_seq_end = f[m - 1]
  /\ BothWays(s, n) /\ Apart(s, n, f, m)
  /\ Searching(s, n) /\ Reclaiming(s, n) /\ Ordered(s, n)

Linkage == \E s, n, f, m : LInv(s, n, f, m)

LEMMA ListInit == Init => Linkage
  <1> SUFFICES ASSUME Init PROVE \E s, n, f, m : LInv(s, n, f, m)
    BY DEF Linkage
  <1> DEFINE s == [i \in 0 .. -1 |-> 0]
             f == [i \in Entry |-> i]
             m == NR_MAX_PARALLEL_IO
  <1> USE TableAssumption, LoadAssumption DEF Init, Entry, None
  <1>1. Times /\ Ordered(s, 0)
    BY DEF Times, Ordered
  <1>2. Chain(s, 0, io_seq) /\ BothWays(s, 0)
    BY DEF Chain, BothWays
  <1>3. Chain(f, m, free_seq) /\ free_seq_end = f[m - 1] /\ m > 0
    <2>1. m \in Nat /\ m > 0 /\ Entry = 0 .. m - 1 /\ f \in [0 .. m - 1 -> Entry]
      OBVIOUS
    <2>2. \A i \in 0 .. m - 1 : f[i] = i
      OBVIOUS
    <2>3. \A i \in 0 .. m - 1 : next[f[i]] = IF i = m - 1 THEN None ELSE f[i + 1]
      OBVIOUS
    <2>4. free_seq = f[0] /\ free_seq_end = f[m - 1]
      OBVIOUS
    <2>5. \A i, j \in 0 .. m - 1 : f[i] = f[j] => i = j
      BY <2>2
    <2> HIDE DEF f, m, Init
    <2> QED
      BY <2>1, <2>3, <2>4, <2>5 DEF Chain
  <1>4. Apart(s, 0, f, m) /\ Searching(s, 0) /\ Reclaiming(s, 0)
    BY DEF Apart, Searching, Reclaiming
  <1>5. /\ next \in [Entry -> Entry \union {None}] /\ prev \in [Entry -> Entry \union {None}]
        /\ dpc = "idle"
    OBVIOUS
  <1>6. LInv(s, 0, f, m)
    BY <1>1, <1>2, <1>3, <1>4, <1>5 DEF LInv
  <1> QED
    BY <1>6

(* The worker and the clock: no link changes, and no target time; what the *)
(* worker has seen of the time only grows.                                 *)
LEMMA LookFrame ==
  ASSUME NEW s, NEW n, NEW f, NEW m, LInv(s, n, f, m),
         UNCHANGED <<next, prev, heads, disp, nsecs_target>>,
         now' \in Nat, now <= now', proc_io_nsecs' \in {proc_io_nsecs, now}
  PROVE  LInv(s, n, f, m)'
  <1> USE DEF LInv, heads, disp
  <1>1. Times' /\ proc_io_nsecs <= proc_io_nsecs'
    BY DEF Times
  <1>2. Ordered(s, n)'
    BY <1>1 DEF Ordered, Times, Chain
  <1>3. Chain(s, n, io_seq)' /\ Chain(f, m, free_seq)' /\ BothWays(s, n)'
    BY DEF Chain, BothWays
  <1>4. Apart(s, n, f, m)' /\ Searching(s, n)' /\ Reclaiming(s, n)'
    BY DEF Apart, Searching, Reclaiming
  <1> QED
    BY <1>1, <1>2, <1>3, <1>4

LEMMA WorkerList ==
  ASSUME NEW s, NEW n, NEW f, NEW m, LInv(s, n, f, m), WorkerStep \/ Tick
  PROVE  LInv(s, n, f, m)'
  <1>1. now \in Nat /\ now + 1 \in Nat /\ now <= now /\ now <= now + 1
    BY DEF LInv, Times
  <1>2. /\ UNCHANGED <<next, prev, heads, disp, nsecs_target>>
        /\ now' \in {now, now + 1} /\ proc_io_nsecs' \in {proc_io_nsecs, now}
    BY DEF WorkerStep, StartRound, ReadClock, TestCompleted, CopyData, SetCopied, PostCompletion,
           SetCompleted, NextRequest, Tick, table
  <1> QED
    BY <1>1, <1>2, LookFrame

(* A walk for entries to reclaim begins at the head of the list. *)
LEMMA WalkBegins ==
  ASSUME NEW s, NEW n, NEW f, NEW m, LInv(s, n, f, m),
         dpc = "idle", dpc' = "reclaim", pos' = io_seq,
         UNCHANGED <<next, prev, heads, entry, last_entry, nsecs_target, proc_io_nsecs, now>>
  PROVE  LInv(s, n, f, m)'
  <1> USE DEF LInv, heads
  <1>1. Times' /\ Ordered(s, n)'
    BY DEF Times, Ordered
  <1>2. Chain(s, n, io_seq)' /\ Chain(f, m, free_seq)' /\ BothWays(s, n)'
    BY DEF Chain, BothWays
  <1>3. Apart(s, n, f, m)' /\ Searching(s, n)'
    BY DEF Apart, Searching
  <1>4. Reclaiming(s, n)'
    <2>1. 0 \in 0 .. n /\ pos' = (IF 0 = n THEN None ELSE s[0]) /\ last_entry' = None
      BY DEF Chain, Reclaiming
    <2> QED
      BY <2>1 DEF Reclaiming
  <1> QED
    BY <1>1, <1>2, <1>3, <1>4

LEMMA ReclaimNextList ==
  ASSUME NEW s, NEW n, NEW f, NEW m, LInv(s, n, f, m), ReclaimNext
  PROVE  LInv(s, n, f, m)'
  <1> USE DEF LInv, heads
  <1>1. /\ dpc = "reclaim" /\ dpc' = dpc /\ pos # None
        /\ last_entry' = pos /\ pos' = next[pos]
        /\ UNCHANGED <<next, prev, heads, entry, nsecs_target, proc_io_nsecs, now>>
    BY DEF ReclaimNext, Reclaimable, table
  <1>2. Times' /\ Ordered(s, n)'
    BY <1>1 DEF Times, Ordered
  <1>3. Chain(s, n, io_seq)' /\ Chain(f, m, free_seq)' /\ BothWays(s, n)'
    BY <1>1 DEF Chain, BothWays
  <1>4. Apart(s, n, f, m)' /\ Searching(s, n)'
    BY <1>1 DEF Apart, Searching
  <1>5. Reclaiming(s, n)'
    <2>1. PICK k \in 0 .. n : /\ pos = IF k = n THEN None ELSE s[k]
                              /\ last_entry = IF k = 0 THEN None ELSE s[k - 1]
      BY <1>1 DEF Reclaiming
    <2>2. n \in Nat /\ k \in 0 .. n - 1 /\ pos = s[k] /\ k + 1 \in 0 .. n
      BY <1>1, <2>1 DEF Chain
    <2>3. next[s[k]] = IF k = n - 1 THEN None ELSE s[k + 1]
      BY <2>2 DEF Chain
    <2>4. /\ pos' = IF k + 1 = n THEN None ELSE s[k + 1]
          /\ last_entry' = IF k + 1 = 0 THEN None ELSE s[(k + 1) - 1]
      BY <1>1, <2>2, <2>3
    <2> QED
      BY <1>1, <2>2, <2>4 DEF Reclaiming
  <1> QED
    BY <1>1, <1>2, <1>3, <1>4, <1>5

LEMMA SearchBackList ==
  ASSUME NEW s, NEW n, NEW f, NEW m, LInv(s, n, f, m), SearchBack
  PROVE  LInv(s, n, f, m)'
  <1> USE DEF LInv, heads
  <1>1. /\ dpc = "search" /\ dpc' = dpc /\ pos # None /\ io_seq # None /\ ~AheadOfEntry(pos)
        /\ pos' = prev[pos]
        /\ UNCHANGED <<next, prev, heads, entry, last_entry, nsecs_target, proc_io_nsecs, now>>
    BY DEF SearchBack, ListEmpty, table
  <1>2. Times' /\ Ordered(s, n)'
    BY <1>1 DEF Times, Ordered
  <1>3. Chain(s, n, io_seq)' /\ Chain(f, m, free_seq)' /\ BothWays(s, n)'
    BY <1>1 DEF Chain, BothWays
  <1>4. Apart(s, n, f, m)' /\ Reclaiming(s, n)'
    BY <1>1 DEF Apart, Reclaiming
  <1>5. Searching(s, n)'
    <2>1. n \in Nat /\ n > 0 /\ s \in [0 .. n - 1 -> Entry]
      BY <1>1 DEF Chain
    <2>2. PICK k \in 0 .. n :
            /\ pos = IF k = 0 THEN None ELSE s[k - 1]
            /\ \A i \in k .. n - 1 : nsecs_target[s[i]] > nsecs_target[entry]
      BY <1>1, <2>1 DEF Searching
    <2>3. k - 1 \in 0 .. n - 1 /\ pos = s[k - 1]
      BY <1>1, <2>1, <2>2
    <2>4. prev[pos] = IF k - 1 = 0 THEN None ELSE s[(k - 1) - 1]
      BY <2>3 DEF BothWays
    <2>5. nsecs_target[s[k - 1]] > nsecs_target[entry]
      <3>1. /\ nsecs_target[s[k - 1]] \in Nat /\ nsecs_target[entry] \in Nat
            /\ ~(nsecs_target[s[k - 1]] <= nsecs_target[entry])
        BY <1>1, <2>1, <2>3 DEF Times, Apart, AheadOfEntry
      <3> QED
        BY <3>1
    <2>6. \A i \in (k - 1) .. n - 1 : nsecs_target[s[i]] > nsecs_target[entry]
      BY <2>1, <2>2, <2>5
    <2>7. next[entry] = None /\ prev[entry] = None
      BY <1>1 DEF Searching
    <2>8. /\ k - 1 \in 0 .. n
          /\ pos' = IF k - 1 = 0 THEN None ELSE s[(k - 1) - 1]
          /\ \A i \in (k - 1) .. n - 1 : nsecs_target'[s[i]] > nsecs_target'[entry']
      BY <1>1, <2>1, <2>3, <2>4, <2>6
    <2> QED
      BY <1>1, <2>7, <2>8 DEF Searching
  <1> QED
    BY <1>1, <1>2, <1>3, <1>4, <1>5

LEMMA TakeEntryList ==
  ASSUME NEW s, NEW n, NEW f, NEW m, LInv(s, n, f, m), NEW r, NEW t \in Targets, TakeEntry(r, t)
  PROVE  \E g, l : LInv(s, n, g, l)'
  <1> USE DEF LInv, heads
  <1>1. /\ dpc = "idle" /\ dpc' = "flags" /\ next[free_seq] \in Entry
        /\ entry' = free_seq /\ free_seq' = next[free_seq]
        /\ nsecs_target' = [nsecs_target EXCEPT ![free_seq] = t]
        /\ UNCHANGED <<next, prev, free_seq_end, io_seq, io_seq_end, proc_io_nsecs, now, last_entry>>
    BY DEF TakeEntry
  <1> DEFINE l == m - 1
             g == [j \in 0 .. l - 1 |-> f[j + 1]]
  <1>2. /\ n \in Nat /\ m \in Nat /\ m > 0
        /\ s \in [0 .. n - 1 -> Entry] /\ f \in [0 .. m - 1 -> Entry]
    BY DEF Chain
  <1>3. free_seq = f[0] /\ free_seq \in Entry /\ \A i \in 0 .. n - 1 : s[i] # free_seq
    BY <1>2 DEF Chain, Apart
  <1>4. m > 1 /\ next[free_seq] = f[1]
    BY <1>1, <1>2, <1>3 DEF Chain, Entry, None
  <1>5. l \in Nat /\ l > 0 /\ \A j \in 0 .. l - 1 : j + 1 \in 0 .. m - 1 /\ g[j] = f[j + 1]
    BY <1>2, <1>4
  <1>6. g \in [0 .. l - 1 -> Entry]
    BY <1>2, <1>5
  <1>7. t \in Nat
    BY LoadAssumption DEF Targets, Times
  <1>8. Times' /\ \A e \in Entry : e # free_seq => nsecs_target'[e] = nsecs_target[e]
    BY <1>1, <1>3, <1>7 DEF Times
  <1>9. Ordered(s, n)'
    <2>1. \A i \in 0 .. n - 1 : nsecs_target'[s[i]] = nsecs_target[s[i]]
      BY <1>2, <1>3, <1>8
    <2> QED
      BY <1>1, <2>1 DEF Ordered
  <1>10. Chain(s, n, io_seq)' /\ BothWays(s, n)'
    BY <1>1 DEF Chain, BothWays
  <1>11. Chain(g, l, free_seq)'
    <2>1. \A i, j \in 0 .. l - 1 : g[i] = g[j] => i = j
      BY <1>2, <1>5 DEF Chain
    <2>2. \A i \in 0 .. l - 1 : next[g[i]] = IF i = l - 1 THEN None ELSE g[i + 1]
      <3>1. SUFFICES ASSUME NEW i \in 0 .. l - 1
                     PROVE  next[g[i]] = IF i = l - 1 THEN None ELSE g[i + 1]
        OBVIOUS
      <3>2. next[f[i + 1]] = IF i + 1 = m - 1 THEN None ELSE f[i + 2]
        BY <1>2, <1>5 DEF Chain
      <3>3. i # l - 1 => g[i + 1] = f[i + 2]
        BY <1>2, <1>5
      <3> QED
        BY <1>2, <1>5, <3>2, <3>3
    <2>3. free_seq' = g[0]
      BY <1>1, <1>4, <1>5
    <2> HIDE DEF g, l
    <2> QED
      BY <1>1, <1>5, <1>6, <2>1, <2>2, <2>3 DEF Chain
  <1>12. free_seq_end' = g[l - 1]
    BY <1>1, <1>2, <1>5
  <1>13. Apart(s, n, g, l)'
    <2>1. \A i \in 0 .. n - 1, j \in 0 .. l - 1 : s[i] # g[j]
      BY <1>2, <1>5 DEF Apart
    <2>2. \A j \in 0 .. l - 1 : g[j] # free_seq
      BY <1>2, <1>3, <1>5 DEF Chain
    <2>3. ASSUME NEW e \in Entry, e # free_seq, ~ \E i \in 0 .. n - 1 : e = s[i]
          PROVE  \E j \in 0 .. l - 1 : e = g[j]
      <3>1. entry = None
        BY <1>1 DEF Apart
      <3>2. PICK j \in 0 .. m - 1 : e = f[j]
        BY <2>3, <3>1 DEF Apart, Entry, None
      <3>3. j # 0
        BY <1>3, <2>3, <3>2
      <3>4. j - 1 \in 0 .. l - 1 /\ e = g[j - 1]
        BY <1>2, <1>5, <3>2, <3>3
      <3> QED
        BY <3>4
    <2> HIDE DEF g, l
    <2>4. \A e \in Entry : \/ e = free_seq
                           \/ \E i \in 0 .. n - 1 : e = s[i]
                           \/ \E j \in 0 .. l - 1 : e = g[j]
      BY <2>3
    <2> QED
      BY <1>1, <1>3, <2>1, <2>2, <2>4 DEF Apart, Entry, None
  <1>14. Searching(s, n)' /\ Reclaiming(s, n)'
    BY <1>1 DEF Searching, Reclaiming
  <1>15. LInv(s, n, g, l)'
    <2> HIDE DEF g, l
    <2> QED
      BY <1>1, <1>5, <1>8, <1>9, <1>10, <1>11, <1>12, <1>13, <1>14
  <1> QED
    BY <1>15

LEMMA ClearFlagsList ==
  ASSUME NEW s, NEW n, NEW f, NEW m, LInv(s, n, f, m), ClearFlags
  PROVE  LInv(s, n, f, m)'
  <1> USE DEF LInv, heads
  <1>1. /\ dpc \in {"flags", "is_copied"} /\ dpc' \in {"is_copied", "links"}
        /\ UNCHANGED <<next, prev, heads, entry, last_entry, nsecs_target, proc_io_nsecs, now>>
    BY DEF ClearFlags
  <1>2. Times' /\ Ordered(s, n)'
    BY <1>1 DEF Times, Ordered
  <1>3. Chain(s, n, io_seq)' /\ Chain(f, m, free_seq)' /\ BothWays(s, n)'
    BY <1>1 DEF Chain, BothWays
  <1>4. Apart(s, n, f, m)' /\ Reclaiming(s, n)' /\ Searching(s, n)'
    BY <1>1 DEF Apart, Reclaiming, Searching
  <1> QED
    BY <1>1, <1>2, <1>3, <1>4

LEMMA ClearLinksList ==
  ASSUME NEW s, NEW n, NEW f, NEW m, LInv(s, n, f, m), ClearLinks
  PROVE  LInv(s, n, f, m)'
  <1> USE DEF LInv, heads
  <1>1. /\ dpc = "links" /\ dpc' = "search" /\ pos' = io_seq_end
        /\ prev' = [prev EXCEPT ![entry] = None] /\ next' = [next EXCEPT ![entry] = None]
        /\ UNCHANGED <<heads, entry, last_entry, nsecs_target, proc_io_nsecs, now>>
    BY DEF ClearLinks
  <1>2. /\ n \in Nat /\ m \in Nat /\ m > 0
        /\ s \in [0 .. n - 1 -> Entry] /\ f \in [0 .. m - 1 -> Entry]
    BY DEF Chain
  <1>3. /\ entry \in Entry
        /\ \A i \in 0 .. n - 1 : s[i] # entry
        /\ \A j \in 0 .. m - 1 : f[j] # entry
    BY <1>1 DEF Apart
  <1>4. /\ next'[entry] = None /\ prev'[entry] = None
        /\ \A e \in Entry : e # entry => next'[e] = next[e] /\ prev'[e] = prev[e]
        /\ next' \in [Entry -> Entry \union {None}] /\ prev' \in [Entry -> Entry \union {None}]
    BY <1>1, <1>3
  <1>5. Times' /\ Ordered(s, n)'
    BY <1>1 DEF Times, Ordered
  <1>6. \A i \in 0 .. n - 1 : next'[s[i]] = next[s[i]] /\ prev'[s[i]] = prev[s[i]]
    BY <1>2, <1>3, <1>4
  <1>7. \A j \in 0 .. m - 1 : next'[f[j]] = next[f[j]]
    BY <1>2, <1>3, <1>4
  <1>8. Chain(s, n, io_seq)' /\ Chain(f, m, free_seq)' /\ BothWays(s, n)'
    BY <1>1, <1>6, <1>7 DEF Chain, BothWays
  <1>9. Apart(s, n, f, m)' /\ Reclaiming(s, n)'
    BY <1>1 DEF Apart, Reclaiming
  <1>10. Searching(s, n)'
    <2>1. n > 0 => /\ n \in 0 .. n /\ pos' = IF n = 0 THEN None ELSE s[n - 1]
                   /\ \A i \in n .. n - 1 : nsecs_target'[s[i]] > nsecs_target'[entry']
      BY <1>1, <1>2 DEF BothWays
    <2>2. next'[entry'] = None /\ prev'[entry'] = None
      BY <1>1, <1>4
    <2> QED
      BY <1>1, <1>2, <2>1, <2>2 DEF Searching
  <1> QED
    BY <1>1, <1>4, <1>5, <1>8, <1>9, <1>10

(* The entry e linked into a list at position p. *)
Ins(s, n, p, e) == [i \in 0 .. n |-> IF i < p THEN s[i] ELSE IF i = p THEN e ELSE s[i - 1]]

LEMMA LinkEntryLinks ==
  ASSUME NEW s, NEW n, NEW f, NEW m, LInv(s, n, f, m), dpc = "search",
         NEW p \in 0 .. n, NEW u, u = Ins(s, n, p, entry),
         next' \in [Entry -> Entry \union {None}], prev' \in [Entry -> Entry \union {None}],
         next'[entry] = IF p = n THEN None ELSE s[p],
         prev'[entry] = IF p = 0 THEN None ELSE s[p - 1],
         p > 0 => next'[s[p - 1]] = entry,
         p < n => prev'[s[p]] = entry,
         \A e \in Entry : e # entry /\ (p > 0 => e # s[p - 1]) => next'[e] = next[e],
         \A e \in Entry : e # entry /\ (p < n => e # s[p]) => prev'[e] = prev[e],
         io_seq' = IF p = 0 THEN entry ELSE io_seq,
         io_seq_end' = IF p = n THEN entry ELSE io_seq_end
  PROVE  Chain(u, n + 1, io_seq)' /\ BothWays(u, n + 1)'
  <1> USE DEF LInv
  <1>1. /\ n \in Nat /\ s \in [0 .. n - 1 -> Entry] /\ p \in Nat
        /\ entry \in Entry /\ \A i \in 0 .. n - 1 : s[i] # entry
    BY DEF Chain, Apart
  <1>2. /\ \A i \in 0 .. p - 1 : i \in 0 .. n - 1 /\ u[i] = s[i]
        /\ u[p] = entry
        /\ \A i \in p + 1 .. n : i - 1 \in 0 .. n - 1 /\ u[i] = s[i - 1]
    BY <1>1 DEF Ins
  <1>3. u \in [0 .. n -> Entry]
    BY <1>1 DEF Ins
  <1>4. \A i, j \in 0 .. n - 1 : s[i] = s[j] => i = j
    BY DEF Chain
  <1>5. \A i, j \in 0 .. n : u[i] = u[j] => i = j
    BY <1>1, <1>4 DEF Ins
  <1>6. io_seq' = u[0]
    BY <1>1, <1>2 DEF Chain
  <1>7. ASSUME NEW i \in 0 .. n PROVE next'[u[i]] = IF i = n THEN None ELSE u[i + 1]
    <2>1. CASE i = p
      BY <1>1, <1>2, <2>1
    <2>2. CASE i = p - 1
      BY <1>1, <1>2, <2>2
    <2>3. CASE i < p - 1
      <3>1. u[i] = s[i] /\ u[i + 1] = s[i + 1] /\ i \in 0 .. n - 1 /\ i < n - 1 /\ p - 1 \in 0 .. n - 1
        BY <1>1, <1>2, <2>3
      <3>2. s[i] # s[p - 1] /\ s[i] # entry
        BY <1>1, <1>4, <2>3, <3>1
      <3>3. next'[s[i]] = next[s[i]] /\ next[s[i]] = s[i + 1]
        BY <1>1, <3>1, <3>2 DEF Chain
      <3> QED
        BY <1>1, <3>1, <3>3
    <2>4. CASE i > p
      <3>1. u[i] = s[i - 1] /\ (i < n => u[i + 1] = s[i]) /\ i - 1 \in 0 .. n - 1
        BY <1>1, <1>2, <2>4
      <3>2. (p > 0 => s[i - 1] # s[p - 1]) /\ s[i - 1] # entry
        BY <1>1, <1>4, <2>4, <3>1
      <3>3. next'[s[i - 1]] = next[s[i - 1]]
        BY <1>1, <3>1, <3>2
      <3>4. next[s[i - 1]] = IF i - 1 = n - 1 THEN None ELSE s[(i - 1) + 1]
        BY <3>1 DEF Chain
      <3> QED
        BY <1>1, <3>1, <3>3, <3>4
    <2> QED
      BY <1>1, <2>1, <2>2, <2>3, <2>4
  <1>8. ASSUME NEW i \in 0 .. n PROVE prev'[u[i]] = IF i = 0 THEN None ELSE u[i - 1]
    <2>1. CASE i = p
      BY <1>1, <1>2, <2>1
    <2>2. CASE i = p + 1
      BY <1>1, <1>2, <2>2
    <2>3. CASE i < p
      <3>1. u[i] = s[i] /\ (i > 0 => u[i - 1] = s[i - 1]) /\ i \in 0 .. n - 1
        BY <1>1, <1>2, <2>3
      <3>2. (p < n => s[i] # s[p]) /\ s[i] # entry
        BY <1>1, <1>4, <2>3, <3>1
      <3>3. prev'[s[i]] = prev[s[i]] /\ prev[s[i]] = IF i = 0 THEN None ELSE s[i - 1]
        BY <1>1, <3>1, <3>2 DEF BothWays
      <3> QED
        BY <1>1, <3>1, <3>3
    <2>4. CASE i > p + 1
      <3>1. u[i] = s[i - 1] /\ u[i - 1] = s[i - 2] /\ i - 1 \in 0 .. n - 1 /\ p \in 0 .. n - 1
        BY <1>1, <1>2, <2>4
      <3>2. s[i - 1] # s[p] /\ s[i - 1] # entry
        BY <1>1, <1>4, <2>4, <3>1
      <3>3. prev'[s[i - 1]] = prev[s[i - 1]]
        BY <1>1, <3>1, <3>2
      <3>4. prev[s[i - 1]] = IF i - 1 = 0 THEN None ELSE s[(i - 1) - 1]
        BY <3>1 DEF BothWays
      <3> QED
        BY <1>1, <2>4, <3>1, <3>3, <3>4
    <2> QED
      BY <1>1, <2>1, <2>2, <2>3, <2>4
  <1>9. io_seq_end' = u[n]
    BY <1>1, <1>2 DEF BothWays
  <1> DEFINE q == n + 1
  <1>10. q \in Nat /\ q > 0 /\ q - 1 = n
    BY <1>1
  <1>11. Chain(u, q, io_seq)'
    <2> HIDE DEF q
    <2> QED
      BY <1>3, <1>5, <1>6, <1>7, <1>10 DEF Chain
  <1>12. BothWays(u, q)'
    <2> HIDE DEF q
    <2> QED
      BY <1>8, <1>9, <1>10 DEF BothWays
  <1> QED
    BY <1>11, <1>12

(* What is put behind an entry that is due or not later, and before later   *)
(* ones, keeps the order.                                                   *)
LEMMA LinkEntryOrder ==
  ASSUME NEW s, NEW n, NEW f, NEW m, LInv(s, n, f, m), dpc = "search",
         NEW p \in 0 .. n, NEW u, u = Ins(s, n, p, entry),
         p > 0 => AheadOfEntry(s[p - 1]),
         \A i \in p .. n - 1 : nsecs_target[s[i]] > nsecs_target[entry],
         UNCHANGED <<nsecs_target, proc_io_nsecs>>
  PROVE  Ordered(u, n + 1)'
  <1> USE DEF LInv
  <1>1. /\ n \in Nat /\ s \in [0 .. n - 1 -> Entry] /\ p \in Nat
        /\ entry \in Entry /\ proc_io_nsecs \in Nat /\ nsecs_target \in [Entry -> Nat]
    BY DEF Chain, Apart, Times
  <1> DEFINE t(i) == nsecs_target[s[i]]
             te == nsecs_target[entry]
  <1>2. te \in Nat /\ \A i \in 0 .. n - 1 : t(i) \in Nat
    BY <1>1
  <1>3. \A j, k \in 0 .. n - 1 : j < k /\ t(j) > t(k) => t(j) <= proc_io_nsecs
    BY DEF Ordered
  <1>4. \A i \in p .. n - 1 : t(i) > te
    OBVIOUS
  <1>5. p > 0 => t(p - 1) <= proc_io_nsecs \/ t(p - 1) <= te
    BY DEF AheadOfEntry
  <1>6. \A i \in 0 .. n : nsecs_target[u[i]] = IF i < p THEN t(i) ELSE IF i = p THEN te ELSE t(i - 1)
    BY <1>1 DEF Ins
  <1> HIDE DEF t, te
  <1>7. ASSUME NEW j \in 0 .. n, NEW k \in 0 .. n, j < k,
               nsecs_target[u[j]] > nsecs_target[u[k]]
        PROVE  nsecs_target[u[j]] <= proc_io_nsecs
    <2>1. CASE k < p
      <3>1. nsecs_target[u[j]] = t(j) /\ nsecs_target[u[k]] = t(k)
            /\ j \in 0 .. n - 1 /\ k \in 0 .. n - 1
        BY <1>1, <1>6, <1>7, <2>1
      <3> QED
        BY <1>3, <1>7, <3>1
    <2>2. CASE k = p
      <3>1. t(j) > te /\ nsecs_target[u[j]] = t(j) /\ j \in 0 .. p - 1 /\ p - 1 \in 0 .. n - 1
        BY <1>1, <1>6, <1>7, <2>2
      <3>2. CASE j = p - 1
        BY <1>1, <1>2, <1>5, <3>1, <3>2
      <3>3. CASE j < p - 1
        <4>1. t(j) > t(p - 1) => t(j) <= proc_io_nsecs
          BY <1>1, <1>3, <3>1, <3>3
        <4> QED
          BY <1>1, <1>2, <1>5, <3>1, <4>1
      <3> QED
        BY <1>1, <3>1, <3>2, <3>3
    <2>3. CASE k > p /\ j < p
      <3>1. nsecs_target[u[j]] = t(j) /\ nsecs_target[u[k]] = t(k - 1)
            /\ j \in 0 .. n - 1 /\ k - 1 \in 0 .. n - 1 /\ j < k - 1
        BY <1>1, <1>6, <1>7, <2>3
      <3> QED
        BY <1>3, <1>7, <3>1
    <2>4. CASE k > p /\ j = p
      <3>1. nsecs_target[u[j]] = te /\ nsecs_target[u[k]] = t(k - 1) /\ k - 1 \in p .. n - 1
        BY <1>1, <1>6, <1>7, <2>4
      <3>2. t(k - 1) > te /\ t(k - 1) \in Nat
        BY <1>1, <1>2, <1>4, <3>1
      <3> QED
        BY <1>2, <1>7, <3>1, <3>2
    <2>5. CASE k > p /\ j > p
      <3>1. nsecs_target[u[j]] = t(j - 1) /\ nsecs_target[u[k]] = t(k - 1)
            /\ j - 1 \in 0 .. n - 1 /\ k - 1 \in 0 .. n - 1 /\ j - 1 < k - 1
        BY <1>1, <1>6, <1>7, <2>5
      <3> QED
        BY <1>3, <1>7, <3>1
    <2> QED
      BY <1>1, <2>1, <2>2, <2>3, <2>4, <2>5
  <1> DEFINE q == n + 1
  <1>8. q - 1 = n
    BY <1>1
  <1>9. Ordered(u, q)'
    <2> HIDE DEF q
    <2> QED
      BY <1>7, <1>8 DEF Ordered
  <1> QED
    BY <1>9

(* The stores that link the entry at position p, and why there. *)
Links(s, n, p) ==
  /\ next' \in [Entry -> Entry \union {None}] /\ prev' \in [Entry -> Entry \union {None}]
  /\ next'[entry] = IF p = n THEN None ELSE s[p]
  /\ prev'[entry] = IF p = 0 THEN None ELSE s[p - 1]
  /\ p > 0 => next'[s[p - 1]] = entry
  /\ p < n => prev'[s[p]] = entry
  /\ \A e \in Entry : e # entry /\ (p > 0 => e # s[p - 1]) => next'[e] = next[e]
  /\ \A e \in Entry : e # entry /\ (p < n => e # s[p]) => prev'[e] = prev[e]
  /\ io_seq' = IF p = 0 THEN entry ELSE io_seq
  /\ io_seq_end' = IF p = n THEN entry ELSE io_seq_end
  /\ p > 0 => AheadOfEntry(s[p - 1])
  /\ \A i \in p .. n - 1 : nsecs_target[s[i]] > nsecs_target[entry]

LEMMA LinkEntryPlace ==
  ASSUME NEW s, NEW n, NEW f, NEW m, LInv(s, n, f, m), LinkEntry
  PROVE  \E p \in 0 .. n : Links(s, n, p)
  <1> USE DEF LInv
  <1>1. /\ n \in Nat /\ s \in [0 .. n - 1 -> Entry] /\ entry \in Entry /\ dpc = "search"
        /\ \A i \in 0 .. n - 1 : s[i] # entry
        /\ \A i, j \in 0 .. n - 1 : s[i] = s[j] => i = j
        /\ None \notin Entry
    BY DEF Chain, Apart, LinkEntry, Entry, None
  <1>2. io_seq = None <=> n = 0
    BY <1>1 DEF Chain
  <1>3. next[entry] = None /\ prev[entry] = None
    BY <1>1 DEF Searching
  <1>4. CASE ListEmpty
    <2>1. n = 0 /\ next' = next /\ prev' = prev /\ io_seq' = entry /\ io_seq_end' = entry
      BY <1>1, <1>2, <1>4 DEF ListEmpty, LinkEntry
    <2>2. Links(s, n, 0)
      BY <1>1, <1>3, <2>1 DEF Links
    <2> QED
      BY <1>1, <2>2
  <1>5. CASE ~ListEmpty
    <2>1. n > 0
      BY <1>1, <1>2, <1>5 DEF ListEmpty
    <2>2. PICK p \in 0 .. n :
            /\ pos = IF p = 0 THEN None ELSE s[p - 1]
            /\ \A i \in p .. n - 1 : nsecs_target[s[i]] > nsecs_target[entry]
      BY <1>1, <2>1 DEF Searching
    <2>3. CASE p = 0
      <3>1. /\ prev' = [prev EXCEPT ![io_seq] = entry] /\ next' = [next EXCEPT ![entry] = io_seq]
            /\ io_seq' = entry /\ io_seq_end' = io_seq_end
        BY <1>5, <2>2, <2>3 DEF LinkEntry
      <3>2. io_seq = s[0] /\ s[0] \in Entry /\ s[0] # entry
        BY <1>1, <2>1 DEF Chain
      <3>3. /\ next' \in [Entry -> Entry \union {None}] /\ prev' \in [Entry -> Entry \union {None}]
            /\ next'[entry] = s[0] /\ prev'[entry] = None /\ prev'[s[0]] = entry
            /\ \A e \in Entry : e # entry => next'[e] = next[e]
            /\ \A e \in Entry : e # s[0] => prev'[e] = prev[e]
        BY <1>1, <1>3, <3>1, <3>2
      <3>4. Links(s, n, 0)
        BY <1>1, <2>1, <2>2, <2>3, <3>1, <3>3 DEF Links
      <3> QED
        BY <1>1, <3>4
    <2>4. CASE p > 0
      <3>1. /\ pos = s[p - 1] /\ pos \in Entry /\ p - 1 \in 0 .. n - 1
            /\ pos # None /\ pos # entry
        BY <1>1, <2>2, <2>4
      <3>2. /\ AheadOfEntry(pos) /\ io_seq' = io_seq
            /\ next' = [next EXCEPT ![entry] = next[pos], ![pos] = entry]
        BY <1>5, <3>1 DEF LinkEntry
      <3>3. next[pos] = IF p = n THEN None ELSE s[p]
        <4>1. next[s[p - 1]] = IF p - 1 = n - 1 THEN None ELSE s[(p - 1) + 1]
          BY <3>1 DEF Chain
        <4> QED
          BY <1>1, <2>4, <3>1, <4>1
      <3>4. /\ next' \in [Entry -> Entry \union {None}]
            /\ next'[entry] = next[pos] /\ next'[pos] = entry
            /\ \A e \in Entry : e # entry /\ e # pos => next'[e] = next[e]
        BY <1>1, <3>1, <3>2
      <3>5. CASE p = n
        <4>1. prev' = [prev EXCEPT ![entry] = pos] /\ io_seq_end' = entry
          BY <1>1, <1>5, <3>1, <3>3, <3>5 DEF LinkEntry
        <4>2. /\ prev' \in [Entry -> Entry \union {None}] /\ prev'[entry] = pos
              /\ \A e \in Entry : e # entry => prev'[e] = prev[e]
          BY <1>1, <3>1, <4>1
        <4>3. Links(s, n, p)
          BY <1>1, <2>2, <2>4, <3>1, <3>2, <3>3, <3>4, <3>5, <4>1, <4>2 DEF Links
        <4> QED
          BY <4>3
      <3>6. CASE p # n
        <4>1. p \in 0 .. n - 1 /\ next[pos] = s[p] /\ s[p] \in Entry /\ s[p] # entry
          BY <1>1, <3>3, <3>6
        <4>2. prev' = [prev EXCEPT ![entry] = pos, ![s[p]] = entry] /\ io_seq_end' = io_seq_end
          BY <1>1, <1>5, <3>1, <4>1 DEF LinkEntry
        <4>3. /\ prev' \in [Entry -> Entry \union {None}]
              /\ prev'[entry] = pos /\ prev'[s[p]] = entry
              /\ \A e \in Entry : e # entry /\ e # s[p] => prev'[e] = prev[e]
          BY <1>1, <3>1, <4>1, <4>2
        <4>4. Links(s, n, p)
          BY <1>1, <2>2, <2>4, <3>1, <3>2, <3>3, <3>4, <3>6, <4>2, <4>3 DEF Links
        <4> QED
          BY <4>4
      <3> QED
        BY <3>5, <3>6
    <2> QED
      BY <1>1, <2>3, <2>4
  <1> QED
    BY <1>4, <1>5

LEMMA LinkEntryList ==
  ASSUME NEW s, NEW n, NEW f, NEW m, LInv(s, n, f, m), LinkEntry
  PROVE  \E u, l : LInv(u, l, f, m)'
  <1> USE DEF LInv
  <1>1. /\ dpc = "search" /\ dpc' = "reclaim" /\ entry' = None /\ pos' = io_seq'
        /\ UNCHANGED <<nsecs_target, free_seq, free_seq_end, proc_io_nsecs, now, last_entry>>
    BY DEF LinkEntry
  <1>2. /\ n \in Nat /\ m \in Nat /\ m > 0
        /\ s \in [0 .. n - 1 -> Entry] /\ f \in [0 .. m - 1 -> Entry]
        /\ entry \in Entry /\ None \notin Entry
    BY <1>1 DEF Chain, Apart, Entry, None
  <1>3. PICK p \in 0 .. n : Links(s, n, p)
    BY LinkEntryPlace
  <1>4. PICK u : u = Ins(s, n, p, entry)
    OBVIOUS
  <1>5. PICK l : l = n + 1
    OBVIOUS
  <1>6. Chain(u, l, io_seq)' /\ BothWays(u, l)'
    BY <1>1, <1>3, <1>4, <1>5, LinkEntryLinks DEF Links
  <1>7. Ordered(u, l)'
    BY <1>1, <1>3, <1>4, <1>5, LinkEntryOrder DEF Links
  <1>8. Chain(f, m, free_seq)'
    <2>1. ASSUME NEW j \in 0 .. m - 1 PROVE next'[f[j]] = next[f[j]]
      <3>1. f[j] \in Entry /\ f[j] # entry /\ (p > 0 => p - 1 \in 0 .. n - 1 /\ f[j] # s[p - 1])
        BY <1>2 DEF Apart
      <3> QED
        BY <1>3, <3>1 DEF Links
    <2> QED
      BY <1>1, <2>1 DEF Chain
  <1>9. Apart(u, l, f, m)'
    <2>1. \A i \in 0 .. l - 1 : u[i] = entry \/ \E j \in 0 .. n - 1 : u[i] = s[j]
      BY <1>2, <1>4, <1>5 DEF Ins
    <2>2. \E i \in 0 .. l - 1 : u[i] = entry
      <3>1. p \in 0 .. l - 1 /\ u[p] = entry
        BY <1>2, <1>4, <1>5 DEF Ins
      <3> QED
        BY <3>1
    <2>3. ASSUME NEW j \in 0 .. n - 1 PROVE \E i \in 0 .. l - 1 : u[i] = s[j]
      <3>1. CASE j < p
        <4>1. j \in 0 .. l - 1 /\ u[j] = s[j]
          BY <1>2, <1>4, <1>5, <3>1 DEF Ins
        <4> QED
          BY <4>1
      <3>2. CASE ~(j < p)
        <4>1. j + 1 \in 0 .. l - 1 /\ u[j + 1] = s[j]
          BY <1>2, <1>4, <1>5, <3>2 DEF Ins
        <4> QED
          BY <4>1
      <3> QED
        BY <3>1, <3>2
    <2>4. \A i \in 0 .. l - 1, j \in 0 .. m - 1 : u[i] # f[j]
      BY <2>1 DEF Apart
    <2>5. \A e \in Entry : \/ \E i \in 0 .. l - 1 : e = u[i]
                           \/ \E j \in 0 .. m - 1 : e = f[j]
      BY <2>2, <2>3 DEF Apart
    <2>6. (\A i \in 0 .. l - 1 : u[i] # None) /\ (\A j \in 0 .. m - 1 : f[j] # None)
      BY <1>2, <2>1
    <2> QED
      BY <1>1, <2>4, <2>5, <2>6 DEF Apart
  <1>10. Reclaiming(u, l)'
    <2>1. last_entry = None /\ l \in Nat
      BY <1>1, <1>2, <1>5 DEF Reclaiming
    <2>2. 0 \in 0 .. l /\ pos' = (IF 0 = l THEN None ELSE u[0]) /\ last_entry' = None
      BY <1>1, <1>6, <2>1 DEF Chain
    <2> QED
      BY <1>1, <2>2 DEF Reclaiming
  <1>11. Searching(u, l)' /\ Times'
    BY <1>1 DEF Searching, Times
  <1>12. /\ next' \in [Entry -> Entry \union {None}] /\ prev' \in [Entry -> Entry \union {None}]
         /\ free_seq_end' = f[m - 1]
    BY <1>1, <1>3 DEF Links
  <1>13. LInv(u, l, f, m)'
    BY <1>1, <1>2, <1>6, <1>7, <1>8, <1>9, <1>10, <1>11, <1>12
  <1> QED
    BY <1>13

(* The first k requests move behind the free entries. *)
LEMMA ReclaimList ==
  ASSUME NEW s, NEW n, NEW f, NEW m, LInv(s, n, f, m), Reclaim
  PROVE  \E u, l, g, h : LInv(u, l, g, h)'
  <1> USE DEF LInv
  <1>1. /\ dpc = "reclaim" /\ dpc' = "idle" /\ last_entry' = None
        /\ UNCHANGED <<nsecs_target, free_seq, io_seq_end, proc_io_nsecs, now, entry>>
    BY DEF Reclaim
  <1>2. /\ n \in Nat /\ m \in Nat /\ m > 0
        /\ s \in [0 .. n - 1 -> Entry] /\ f \in [0 .. m - 1 -> Entry]
        /\ entry = None /\ None \notin Entry
    BY <1>1 DEF Chain, Apart, Entry, None
  <1>3. Times' /\ Searching(s, n)'
    BY <1>1 DEF Times, Searching
  <1>4. CASE last_entry = None
    <2>1. UNCHANGED <<next, prev, free_seq_end, io_seq>>
      BY <1>4 DEF Reclaim
    <2>2. Chain(s, n, io_seq)' /\ Chain(f, m, free_seq)' /\ BothWays(s, n)' /\ Ordered(s, n)'
      BY <1>1, <2>1 DEF Chain, BothWays, Ordered
    <2>3. Apart(s, n, f, m)' /\ Reclaiming(s, n)'
      BY <1>1 DEF Apart, Reclaiming
    <2>4. LInv(s, n, f, m)'
      BY <1>1, <1>3, <2>1, <2>2, <2>3
    <2> QED
      BY <2>4
  <1>5. CASE last_entry # None
    <2>1. PICK k \in 0 .. n : last_entry = IF k = 0 THEN None ELSE s[k - 1]
      BY <1>1 DEF Reclaiming
    <2>2. k > 0 /\ k - 1 \in 0 .. n - 1 /\ last_entry = s[k - 1] /\ n > 0 /\ k \in Nat
      BY <1>2, <1>5, <2>1
    <2>3. PICK l : l = n - k
      OBVIOUS
    <2>4. PICK h : h = m + k
      OBVIOUS
    <2>5. PICK u : u = [i \in 0 .. l - 1 |-> s[i + k]]
      OBVIOUS
    <2>6. PICK g : g = [j \in 0 .. h - 1 |-> IF j < m THEN f[j] ELSE s[j - m]]
      OBVIOUS
    <2>7. /\ l \in Nat /\ h \in Nat /\ h > 0
          /\ \A i \in 0 .. l - 1 : i + k \in 0 .. n - 1 /\ u[i] = s[i + k]
          /\ \A j \in 0 .. m - 1 : j \in 0 .. h - 1 /\ g[j] = f[j]
          /\ \A j \in m .. h - 1 : j - m \in 0 .. k - 1 /\ j - m \in 0 .. n - 1 /\ g[j] = s[j - m]
      BY <1>2, <2>2, <2>3, <2>4, <2>5, <2>6
    <2>8. u \in [0 .. l - 1 -> Entry] /\ g \in [0 .. h - 1 -> Entry]
      <3>1. \A i \in 0 .. l - 1 : s[i + k] \in Entry
        BY <1>2, <2>7
      <3>2. ASSUME NEW j \in 0 .. h - 1 PROVE (IF j < m THEN f[j] ELSE s[j - m]) \in Entry
        <4>1. j < m => j \in 0 .. m - 1
          BY <1>2
        <4>2. ~(j < m) => j - m \in 0 .. n - 1
          BY <1>2, <2>2, <2>4
        <4> QED
          BY <1>2, <4>1, <4>2
      <3> QED
        BY <2>5, <2>6, <3>1, <3>2
    <2>9. /\ \A i, j \in 0 .. n - 1 : s[i] = s[j] => i = j
          /\ \A i, j \in 0 .. m - 1 : f[i] = f[j] => i = j
          /\ \A i \in 0 .. n - 1, j \in 0 .. m - 1 : s[i] # f[j]
      BY DEF Chain, Apart
    <2>10. next[last_entry] = IF k = n THEN None ELSE s[k]
      <3>1. next[s[k - 1]] = IF k - 1 = n - 1 THEN None ELSE s[(k - 1) + 1]
        BY <2>2 DEF Chain
      <3> QED
        BY <1>2, <2>2, <3>1
    <2>11. /\ io_seq = s[0] /\ free_seq_end = f[m - 1] /\ free_seq = f[0]
           /\ io_seq_end = s[n - 1] /\ s[0] \in Entry /\ f[m - 1] \in Entry /\ s[k - 1] \in Entry
           /\ s[k - 1] # f[m - 1]
      BY <1>2, <2>2, <2>9 DEF Chain, BothWays
    <2>12. /\ io_seq' = next[last_entry]
           /\ next' = [next EXCEPT ![s[k - 1]] = None, ![f[m - 1]] = s[0]]
           /\ prev' = [e \in Entry |-> IF e = next[last_entry] THEN None
                                       ELSE IF e = s[0] THEN f[m - 1] ELSE prev[e]]
           /\ free_seq_end' = s[k - 1]
      BY <1>5, <2>2, <2>11 DEF Reclaim
    <2>13. /\ next' \in [Entry -> Entry \union {None}]
           /\ next'[s[k - 1]] = None /\ next'[f[m - 1]] = s[0]
           /\ \A e \in Entry : e # s[k - 1] /\ e # f[m - 1] => next'[e] = next[e]
      BY <2>11, <2>12
    <2>14. /\ prev' \in [Entry -> Entry \union {None}]
           /\ k < n => prev'[s[k]] = None
           /\ \A i \in k + 1 .. n - 1 : prev'[s[i]] = prev[s[i]]
      <3>1. prev' \in [Entry -> Entry \union {None}]
        BY <2>11, <2>12
      <3>2. k < n => k \in 0 .. n - 1 /\ s[k] \in Entry /\ next[last_entry] = s[k]
        BY <1>2, <2>2, <2>10
      <3>3. k < n => prev'[s[k]] = None
        BY <2>12, <3>2
      <3>4. ASSUME NEW i \in k + 1 .. n - 1 PROVE prev'[s[i]] = prev[s[i]]
        <4>1. i \in 0 .. n - 1 /\ k < n /\ s[i] \in Entry /\ s[i] # s[k] /\ s[i] # s[0]
          BY <1>2, <2>2, <2>9
        <4> QED
          BY <2>12, <3>2, <4>1
      <3> QED
        BY <3>1, <3>3, <3>4
    <2>15. Chain(u, l, io_seq)'
      <3>1. \A i, j \in 0 .. l - 1 : u[i] = u[j] => i = j
        BY <1>2, <2>2, <2>7, <2>9
      <3>2. ASSUME NEW i \in 0 .. l - 1 PROVE next'[u[i]] = IF i = l - 1 THEN None ELSE u[i + 1]
        <4>1. u[i] = s[i + k] /\ i + k \in 0 .. n - 1 /\ s[i + k] \in Entry
          BY <1>2, <2>7
        <4>2. s[i + k] # s[k - 1] /\ s[i + k] # f[m - 1]
          BY <1>2, <2>2, <2>9, <4>1
        <4>3. next'[u[i]] = IF i + k = n - 1 THEN None ELSE s[(i + k) + 1]
          BY <2>13, <4>1, <4>2 DEF Chain
        <4>4. i # l - 1 => u[i + 1] = s[(i + k) + 1]
          BY <1>2, <2>2, <2>3, <2>7
        <4> QED
          BY <1>2, <2>2, <2>3, <4>3, <4>4
      <3>3. io_seq' = IF l = 0 THEN None ELSE u[0]
        BY <1>2, <2>2, <2>3, <2>7, <2>10, <2>12
      <3> QED
        BY <2>7, <2>8, <3>1, <3>2, <3>3 DEF Chain
    <2>16. BothWays(u, l)'
      <3>1. l > 0 => io_seq_end' = u[l - 1]
        BY <1>1, <1>2, <2>2, <2>3, <2>7, <2>11
      <3>2. ASSUME NEW i \in 0 .. l - 1 PROVE prev'[u[i]] = IF i = 0 THEN None ELSE u[i - 1]
        <4>1. CASE i = 0
          BY <1>2, <2>2, <2>3, <2>7, <2>14, <4>1
        <4>2. CASE i # 0
          <5>1. i + k \in k + 1 .. n - 1 /\ u[i] = s[i + k] /\ u[i - 1] = s[(i + k) - 1]
            BY <1>2, <2>2, <2>3, <2>7, <4>2
          <5>2. prev[s[i + k]] = s[(i + k) - 1]
            <6>1. i + k \in 0 .. n - 1 /\ i + k # 0
              BY <1>2, <2>2, <5>1
            <6> QED
              BY <1>2, <6>1 DEF BothWays
          <5> QED
            BY <2>14, <4>2, <5>1, <5>2
        <4> QED
          BY <4>1, <4>2
      <3> QED
        BY <3>1, <3>2 DEF BothWays
    <2>17. Chain(g, h, free_seq)'
      <3>1. \A i, j \in 0 .. h - 1 : g[i] = g[j] => i = j
        <4>1. \A i \in 0 .. h - 1 : i \in 0 .. m - 1 \/ i \in m .. h - 1
          BY <1>2, <2>7
        <4> QED
          BY <1>2, <2>7, <2>9, <4>1
      <3>2. ASSUME NEW j \in 0 .. h - 1 PROVE next'[g[j]] = IF j = h - 1 THEN None ELSE g[j + 1]
        <4>1. CASE j < m - 1
          <5>1. /\ j \in 0 .. m - 1 /\ g[j] = f[j] /\ j + 1 \in 0 .. m - 1 /\ g[j + 1] = f[j + 1]
                /\ j # h - 1 /\ f[j] \in Entry
            BY <1>2, <2>4, <2>7, <4>1
          <5>2. f[j] # s[k - 1] /\ f[j] # f[m - 1]
            BY <1>2, <2>2, <2>9, <4>1, <5>1
          <5>3. next[f[j]] = IF j = m - 1 THEN None ELSE f[j + 1]
            BY <5>1 DEF Chain
          <5> QED
            BY <1>2, <2>13, <4>1, <5>1, <5>2, <5>3
        <4>2. CASE j = m - 1
          <5>1. g[j] = f[m - 1] /\ j # h - 1 /\ g[j + 1] = s[0]
            BY <1>2, <2>2, <2>4, <2>7, <4>2
          <5> QED
            BY <2>13, <5>1
        <4>3. CASE j > m - 1 /\ j # h - 1
          <5>1. /\ j - m \in 0 .. n - 1 /\ g[j] = s[j - m] /\ j - m < k - 1
                /\ g[j + 1] = s[(j - m) + 1] /\ s[j - m] \in Entry
            BY <1>2, <2>2, <2>4, <2>7, <4>3
          <5>2. s[j - m] # s[k - 1] /\ s[j - m] # f[m - 1]
            BY <1>2, <2>2, <2>9, <5>1
          <5>3. next[s[j - m]] = s[(j - m) + 1]
            BY <1>2, <2>2, <5>1 DEF Chain
          <5> QED
            BY <2>13, <4>3, <5>1, <5>2, <5>3
        <4>4. CASE j = h - 1
          BY <1>2, <2>2, <2>4, <2>7, <2>13, <4>4
        <4> QED
          BY <1>2, <4>1, <4>2, <4>3, <4>4
      <3>3. free_seq' = g[0]
        BY <1>1, <1>2, <2>7, <2>11
      <3> QED
        BY <2>7, <2>8, <3>1, <3>2, <3>3 DEF Chain
    <2>18. free_seq_end' = g[h - 1]
      BY <1>2, <2>2, <2>4, <2>7, <2>12
    <2>19. Apart(u, l, g, h)'
      <3>1. \A i \in 0 .. h - 1 : i \in 0 .. m - 1 \/ i \in m .. h - 1
        BY <1>2, <2>7
      <3>2. \A i \in 0 .. l - 1, j \in 0 .. h - 1 : u[i] # g[j]
        BY <1>2, <2>2, <2>7, <2>9, <3>1
      <3>3. ASSUME NEW e \in Entry
            PROVE (\E i \in 0 .. l - 1 : e = u[i]) \/ \E j \in 0 .. h - 1 : e = g[j]
        <4>1. CASE \E j \in 0 .. m - 1 : e = f[j]
          BY <2>7, <4>1
        <4>2. ASSUME NEW i \in 0 .. n - 1, e = s[i], i < k
              PROVE  \E j \in 0 .. h - 1 : e = g[j]
          <5>1. i + m \in m .. h - 1 /\ i + m \in 0 .. h - 1 /\ (i + m) - m = i
            BY <1>2, <2>2, <2>4, <4>2
          <5>2. e = g[i + m]
            BY <2>7, <4>2, <5>1
          <5> QED
            BY <5>1, <5>2
        <4>3. ASSUME NEW i \in 0 .. n - 1, e = s[i], i >= k
              PROVE  \E j \in 0 .. l - 1 : e = u[j]
          <5>1. i - k \in 0 .. l - 1 /\ (i - k) + k = i
            BY <1>2, <2>2, <2>3, <4>3
          <5>2. e = u[i - k]
            BY <2>7, <4>3, <5>1
          <5> QED
            BY <5>1, <5>2
        <4> QED
          BY <1>2, <2>2, <4>1, <4>2, <4>3 DEF Apart
      <3>4. (\A i \in 0 .. l - 1 : u[i] # None) /\ (\A j \in 0 .. h - 1 : g[j] # None)
        <4>1. \A i \in 0 .. l - 1 : u[i] \in Entry
          BY <2>8
        <4>2. \A j \in 0 .. h - 1 : g[j] \in Entry
          BY <2>8
        <4> QED
          BY <1>2, <4>1, <4>2
      <3> QED
        BY <1>1, <1>2, <3>2, <3>3, <3>4 DEF Apart
    <2>20. Ordered(u, l)'
      <3>1. ASSUME NEW i \in 0 .. l - 1, NEW j \in 0 .. l - 1, i < j,
                   nsecs_target[u[i]] > nsecs_target[u[j]]
            PROVE  nsecs_target[u[i]] <= proc_io_nsecs
        <4>1. /\ u[i] = s[i + k] /\ u[j] = s[j + k] /\ i + k < j + k
              /\ i + k \in 0 .. n - 1 /\ j + k \in 0 .. n - 1
          BY <2>2, <2>7, <3>1
        <4> QED
          BY <3>1, <4>1 DEF Ordered
      <3> QED
        BY <1>1, <3>1 DEF Ordered
    <2>21. Searching(u, l)' /\ Reclaiming(u, l)'
      BY <1>1 DEF Searching, Reclaiming
    <2>22. LInv(u, l, g, h)'
      BY <1>1, <1>3, <2>7, <2>13, <2>14, <2>15, <2>16, <2>17, <2>18, <2>19, <2>20, <2>21
    <2> QED
      BY <2>22
  <1> QED
    BY <1>4, <1>5

-----------------------------------------------------------------------------
LEMMA LinkageNext == Linkage /\ [Next]_vars => Linkage'
  <1> SUFFICES ASSUME NEW s, NEW n, NEW f, NEW m, LInv(s, n, f, m), [Next]_vars
               PROVE  \E u, l, g, h : LInv(u, l, g, h)'
    BY DEF Linkage
  <1>1. ASSUME NEW r \in Req, DropRequest(r) PROVE LInv(s, n, f, m)'
    BY <1>1, WalkBegins DEF DropRequest, table
  <1>2. ASSUME NEW r \in Req, NEW t \in Targets, TakeEntry(r, t)
        PROVE  \E u, l, g, h : LInv(u, l, g, h)'
    BY <1>2, TakeEntryList
  <1>3. CASE OtherCommand
    BY <1>3, WalkBegins DEF OtherCommand, table
  <1>4. CASE ClearFlags \/ ClearLinks \/ SearchBack \/ ReclaimNext
    BY <1>4, ClearFlagsList, ClearLinksList, SearchBackList, ReclaimNextList
  <1>5. CASE LinkEntry
    BY <1>5, LinkEntryList
  <1>6. CASE Reclaim
    BY <1>6, ReclaimList
  <1>7. CASE WorkerStep \/ Tick
    BY <1>7, WorkerList
  <1>8. CASE UNCHANGED vars
    <2>1. now \in Nat /\ now <= now
      BY DEF LInv, Times
    <2> QED
      BY <1>8, <2>1, LookFrame DEF vars, heads, disp
  <1> QED
    BY <1>1, <1>2, <1>3, <1>4, <1>5, <1>6, <1>7, <1>8 DEF Next, Command, DispatcherStep

LEMMA LinkageInvariant == Spec => []Linkage
  BY ListInit, LinkageNext, PTL DEF Spec

(* at is the walk along next that starts at head. *)
WalkFrom(at, head) ==
  at = [k \in 0 .. NR_MAX_PARALLEL_IO |->
          IF k = 0 THEN head ELSE IF at[k - 1] = None THEN None ELSE next[at[k - 1]]]

LEMMA WalkSteps ==
  ASSUME NEW at, NEW head, WalkFrom(at, head), NEW k \in 0 .. NR_MAX_PARALLEL_IO
  PROVE  at[k] = IF k = 0 THEN head ELSE IF at[k - 1] = None THEN None ELSE next[at[k - 1]]
  BY Zenon DEF WalkFrom

(* Along a list the walk passes its entries, and then stays at None. *)
LEMMA Walked ==
  ASSUME NEW s, NEW n, NEW head, Chain(s, n, head), NEW at, WalkFrom(at, head)
  PROVE  \A k \in 0 .. NR_MAX_PARALLEL_IO : at[k] = IF k < n THEN s[k] ELSE None
  <1>1. /\ n \in Nat /\ s \in [0 .. n - 1 -> Entry] /\ NR_MAX_PARALLEL_IO \in Nat
        /\ \A i \in 0 .. n - 1 : s[i] # None
    BY TableAssumption DEF Chain, Entry, None
  <1> DEFINE T == {k \in 0 .. NR_MAX_PARALLEL_IO : at[k] # IF k < n THEN s[k] ELSE None}
  <1> SUFFICES ASSUME T # {} PROVE FALSE
    BY DEF T
  <1>2. T \subseteq Nat
    BY <1>1
  <1>3. PICK x \in T : \A y \in T : ~(<<y, x>> \in OpToRel(<, Nat))
    <2> HIDE DEF T
    <2> QED
      BY <1>2, WFMin, NatLessThanWellFounded
  <1>4. \A y \in T : ~(y < x)
    BY <1>2, <1>3 DEF OpToRel
  <1>5. x \in 0 .. NR_MAX_PARALLEL_IO /\ at[x] # IF x < n THEN s[x] ELSE None
    OBVIOUS
  <1>6. x # 0
    <2>1. at[0] = head
      BY <1>1, WalkSteps
    <2>2. head = IF 0 < n THEN s[0] ELSE None
      BY <1>1 DEF Chain
    <2> QED
      BY <1>5, <2>1, <2>2
  <1>7. x - 1 \in 0 .. NR_MAX_PARALLEL_IO /\ at[x - 1] = IF x - 1 < n THEN s[x - 1] ELSE None
    <2>1. x - 1 \in 0 .. NR_MAX_PARALLEL_IO /\ x - 1 < x
      BY <1>1, <1>5, <1>6
    <2>2. x - 1 \notin T
      BY <1>4, <2>1
    <2> QED
      BY <2>1, <2>2
  <1>8. at[x] = IF at[x - 1] = None THEN None ELSE next[at[x - 1]]
    BY <1>5, <1>6, WalkSteps
  <1>9. x - 1 < n => next[s[x - 1]] = IF x < n THEN s[x] ELSE None
    <2>1. ASSUME x - 1 < n PROVE next[s[x - 1]] = IF x - 1 = n - 1 THEN None ELSE s[(x - 1) + 1]
      BY <1>1, <1>5, <1>6, <2>1 DEF Chain
    <2> QED
      BY <1>1, <1>5, <1>6, <2>1
  <1> QED
    BY <1>1, <1>5, <1>6, <1>7, <1>8, <1>9

(* The walk is a function there is: the list itself shows one.              *)
LEMMA WalkIs ==
  ASSUME NEW s, NEW n, NEW head, Chain(s, n, head)
  PROVE  \E at : WalkFrom(at, head)
  <1> DEFINE w == [k \in 0 .. NR_MAX_PARALLEL_IO |-> IF k < n THEN s[k] ELSE None]
  <1>1. /\ n \in Nat /\ s \in [0 .. n - 1 -> Entry] /\ NR_MAX_PARALLEL_IO \in Nat
        /\ \A i \in 0 .. n - 1 : s[i] # None
    BY TableAssumption DEF Chain, Entry, None
  <1>2. ASSUME NEW k \in 0 .. NR_MAX_PARALLEL_IO
        PROVE  (IF k < n THEN s[k] ELSE None)
                 = IF k = 0 THEN head
                   ELSE IF w[k - 1] = None THEN None ELSE next[w[k - 1]]
    <2>1. CASE k = 0
      BY <1>1, <2>1 DEF Chain
    <2>2. CASE k # 0
      <3>1. k - 1 \in 0 .. NR_MAX_PARALLEL_IO /\ w[k - 1] = IF k - 1 < n THEN s[k - 1] ELSE None
        BY <1>1, <2>2
      <3>2. k - 1 < n => next[s[k - 1]] = IF k < n THEN s[k] ELSE None
        <4>1. ASSUME k - 1 < n PROVE next[s[k - 1]] = IF k - 1 = n - 1 THEN None ELSE s[(k - 1) + 1]
          BY <1>1, <2>2, <4>1 DEF Chain
        <4> QED
          BY <1>1, <2>2, <4>1
      <3> HIDE DEF w
      <3> QED
        BY <1>1, <2>2, <3>1, <3>2
    <2> QED
      BY <2>1, <2>2
  <1> DEFINE A(k) == IF k < n THEN s[k] ELSE None
             B(k) == IF k = 0 THEN head ELSE IF w[k - 1] = None THEN None ELSE next[w[k - 1]]
  <1>3. [k \in 0 .. NR_MAX_PARALLEL_IO |-> A(k)] = [k \in 0 .. NR_MAX_PARALLEL_IO |-> B(k)]
    <2>1. \A k \in 0 .. NR_MAX_PARALLEL_IO : A(k) = B(k)
      BY <1>2
    <2> HIDE DEF A, B
    <2> QED
      BY <2>1
  <1>4. WalkFrom(w, head)
    BY <1>3, Zenon DEF WalkFrom, w, A, B
  <1> QED
    BY <1>4

LEMMA IoAtIs ==
  ASSUME NEW s, NEW n, Chain(s, n, io_seq)
  PROVE  \A k \in 0 .. NR_MAX_PARALLEL_IO : IoAt[k] = IF k < n THEN s[k] ELSE None
  <1>1. \E at : WalkFrom(at, io_seq)
    BY WalkIs
  <1>2. WalkFrom(IoAt, io_seq)
    BY <1>1, Zenon DEF IoAt, WalkFrom
  <1> QED
    BY <1>2, Walked

LEMMA FreeAtIs ==
  ASSUME NEW s, NEW n, Chain(s, n, free_seq)
  PROVE  \A k \in 0 .. NR_MAX_PARALLEL_IO : FreeAt[k] = IF k < n THEN s[k] ELSE None
  <1>1. \E at : WalkFrom(at, free_seq)
    BY WalkIs
  <1>2. WalkFrom(FreeAt, free_seq)
    BY <1>1, Zenon DEF FreeAt, WalkFrom
  <1> QED
    BY <1>2, Walked

(* No list is longer than the table. *)
LEMMA LengthBound ==
  ASSUME NEW s, NEW n, NEW head, Chain(s, n, head)
  PROVE  n <= NR_MAX_PARALLEL_IO
  <1>1. /\ n \in Nat /\ NR_MAX_PARALLEL_IO \in Nat /\ n - 1 \in Int /\ NR_MAX_PARALLEL_IO - 1 \in Int
    BY TableAssumption DEF Chain
  <1>2. s \in Injection(0 .. n - 1, Entry)
    BY DEF Chain, Injection, IsInjective
  <1>3. IsFiniteSet(Entry) /\ Cardinality(Entry) = NR_MAX_PARALLEL_IO
    BY <1>1, FS_Interval, TableAssumption DEF Entry
  <1>4. Cardinality(0 .. n - 1) <= NR_MAX_PARALLEL_IO
    BY <1>2, <1>3, FS_Injection
  <1>5. Cardinality(0 .. n - 1) = n
    BY <1>1, FS_Interval
  <1> QED
    BY <1>4, <1>5

LEMMA LinkedIs ==
  ASSUME NEW s, NEW n, NEW head, Chain(s, n, head),
         NEW at, \A k \in 0 .. NR_MAX_PARALLEL_IO : at[k] = IF k < n THEN s[k] ELSE None,
         NEW e
  PROVE  e \in Linked(at) <=> \E i \in 0 .. n - 1 : e = s[i]
  <1>1. /\ n \in Nat /\ s \in [0 .. n - 1 -> Entry] /\ NR_MAX_PARALLEL_IO \in Nat
        /\ \A i \in 0 .. n - 1 : s[i] # None
    BY TableAssumption DEF Chain, Entry, None
  <1>2. n <= NR_MAX_PARALLEL_IO
    BY LengthBound
  <1>3. ASSUME NEW i \in 0 .. n - 1, e = s[i] PROVE e \in Linked(at)
    <2>1. i \in 0 .. NR_MAX_PARALLEL_IO /\ at[i] = e /\ e # None
      BY <1>1, <1>2, <1>3
    <2> QED
      BY <2>1 DEF Linked
  <1>4. ASSUME e \in Linked(at) PROVE \E i \in 0 .. n - 1 : e = s[i]
    <2>1. PICK k \in 0 .. NR_MAX_PARALLEL_IO : e = at[k] /\ e # None
      BY <1>4 DEF Linked
    <2>2. k \in 0 .. n - 1 /\ e = s[k]
      BY <1>1, <2>1
    <2> QED
      BY <2>2
  <1> QED
    BY <1>3, <1>4

(* No entry is lost, or in two lists, and the links agree both ways: the    *)
(* dispatcher links and reclaims while the worker walks, for every size.    *)
THEOREM ListsStayIntact == Spec => []ListsIntact
  <1>1. Linkage => ListsIntact
    <2> SUFFICES ASSUME NEW s, NEW n, NEW f, NEW m, LInv(s, n, f, m) PROVE ListsIntact
      BY DEF Linkage
    <2> USE DEF LInv
    <2>1. Chain(s, n, io_seq) /\ Chain(f, m, free_seq)
      OBVIOUS
    <2>2. /\ n \in Nat /\ m \in Nat /\ m > 0
          /\ s \in [0 .. n - 1 -> Entry] /\ f \in [0 .. m - 1 -> Entry]
          /\ None \notin Entry
      BY DEF Chain, Entry, None
    <2>3. \A e : e \in Linked(IoAt) <=> \E i \in 0 .. n - 1 : e = s[i]
      BY <2>1, LinkedIs, IoAtIs
    <2>4. \A e : e \in Linked(FreeAt) <=> \E j \in 0 .. m - 1 : e = f[j]
      BY <2>1, LinkedIs, FreeAtIs
    <2>5. Linked(FreeAt) \intersect Linked(IoAt) = {}
      BY <2>3, <2>4 DEF Apart
    <2>6. Linked(FreeAt) \union Linked(IoAt) \union ({entry} \ {None}) = Entry
      <3>1. \A e \in Linked(FreeAt) \union Linked(IoAt) : e \in Entry
        BY <2>2, <2>3, <2>4
      <3>2. \A e \in Entry : e \in Linked(FreeAt) \union Linked(IoAt) \union ({entry} \ {None})
        BY <2>2, <2>3, <2>4 DEF Apart
      <3> QED
        BY <3>1, <3>2 DEF Apart
    <2>7. entry \notin Linked(FreeAt) \union Linked(IoAt)
      BY <2>3, <2>4 DEF Apart
    <2>8. next[free_seq_end] = None /\ free_seq_end \in Linked(FreeAt)
      <3>1. m - 1 \in 0 .. m - 1 /\ free_seq_end = f[m - 1]
        BY <2>2
      <3> QED
        BY <2>1, <2>4, <3>1 DEF Chain
    <2>9. ASSUME io_seq # None
          PROVE  /\ next[io_seq_end] = None /\ io_seq_end \in Linked(IoAt)
                 /\ \A e \in Linked(IoAt) : /\ next[e] # None => prev[next[e]] = e
                                            /\ e = io_seq => prev[e] = None
      <3>1. n > 0 /\ io_seq = s[0] /\ io_seq_end = s[n - 1] /\ n - 1 \in 0 .. n - 1
        BY <2>2, <2>9 DEF Chain, BothWays
      <3>2. next[io_seq_end] = None /\ io_seq_end \in Linked(IoAt)
        BY <2>3, <3>1 DEF Chain
      <3>3. ASSUME NEW i \in 0 .. n - 1
            PROVE  /\ next[s[i]] # None => prev[next[s[i]]] = s[i]
                   /\ s[i] = io_seq => prev[s[i]] = None
        <4>1. next[s[i]] = IF i = n - 1 THEN None ELSE s[i + 1]
          BY DEF Chain
        <4>2. i # n - 1 => i + 1 \in 0 .. n - 1 /\ prev[s[i + 1]] = s[i]
          BY <2>2 DEF BothWays
        <4>3. s[i] = io_seq => i = 0
          BY <2>2, <3>1 DEF Chain
        <4>4. i = 0 => prev[s[i]] = None
          BY DEF BothWays
        <4> QED
          BY <4>1, <4>2, <4>3, <4>4
      <3> QED
        BY <2>3, <3>2, <3>3
    <2> QED
      BY <2>5, <2>6, <2>7, <2>8, <2>9 DEF ListsIntact
  <1> QED
    BY <1>1, LinkageInvariant, PTL

(* No request waits behind a later one, unless its own time has come.       *)
THEOREM NoneWaitsBehindLater == Spec => []DueFirst
  <1>1. Linkage => DueFirst
    <2> SUFFICES ASSUME NEW s, NEW n, NEW f, NEW m, LInv(s, n, f, m),
                        NEW j \in 0 .. NR_MAX_PARALLEL_IO, NEW k \in 0 .. NR_MAX_PARALLEL_IO,
                        j < k, IoAt[k] # None,
                        nsecs_target[IoAt[j]] > nsecs_target[IoAt[k]]
                 PROVE  nsecs_target[IoAt[j]] <= proc_io_nsecs
      BY DEF Linkage, DueFirst
    <2>1. Chain(s, n, io_seq) /\ n \in Nat /\ NR_MAX_PARALLEL_IO \in Nat
      BY TableAssumption DEF LInv, Chain
    <2>2. /\ IoAt[j] = IF j < n THEN s[j] ELSE None
          /\ IoAt[k] = IF k < n THEN s[k] ELSE None
      BY <2>1, IoAtIs
    <2>3. j \in 0 .. n - 1 /\ k \in 0 .. n - 1 /\ IoAt[j] = s[j] /\ IoAt[k] = s[k]
      BY <2>1, <2>2
    <2> QED
      BY <2>3 DEF LInv, Ordered
  <1> QED
    BY <1>1, LinkageInvariant, PTL

=============================================================================
