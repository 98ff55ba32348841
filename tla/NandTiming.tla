----------------------------- MODULE NandTiming -----------------------------
(***************************************************************************)
(* The latencies of the emulated flash (ftl.c).  A LUN does one operation  *)
(* after the other: next_lun_avail_time is when it will be done with all   *)
(* it was given, and an operation takes until then and its own time.       *)
(* Operations of one kind that are given to a LUN together are counted,    *)
(* not listed: n of them take what the loops over the pages come to.       *)
(***************************************************************************)
EXTENDS Integers, FiniteSets

CONSTANTS
  tt_luns,
  NAND_READ_LATENCY, NAND_PROG_LATENCY, NAND_ERASE_LATENCY,
  Latencies                 \* what read_times and write_times may be set to

ASSUME LunAssumption == tt_luns \in Nat \ {0}
ASSUME LatencyAssumption ==
  /\ {NAND_READ_LATENCY, NAND_PROG_LATENCY, NAND_ERASE_LATENCY} \subseteq Nat
  /\ Latencies \subseteq Nat

(* The LUNs in the order in which the write pointer goes round: channel by  *)
(* channel, then LUN by LUN.                                               *)
Lun == 0 .. tt_luns - 1

VARIABLES
  next_lun_avail_time,
  lat,        \* pg_rd_lat, pg_wr_lat and blk_er_lat, by the NAND command
  now

timingVars == <<next_lun_avail_time, lat, now>>

NandCmd == {"NAND_READ", "NAND_WRITE", "NAND_ERASE"}

TimingInit ==
  /\ next_lun_avail_time = [l \in Lun |-> 0]
  /\ lat = [NAND_READ |-> NAND_READ_LATENCY, NAND_WRITE |-> NAND_PROG_LATENCY,
            NAND_ERASE |-> NAND_ERASE_LATENCY]
  /\ now = 0

(* Fault: a LUN starts an operation when it is asked to. *)
NandStartAtOnce(l, stime) == stime

(* When LUN l starts what it is asked for at stime. *)
NandStart(l, stime) ==
  IF next_lun_avail_time[l] < stime THEN stime ELSE next_lun_avail_time[l]

(* ssd_advance_status: n operations of kind c on LUN l.                    *)
NandEnd(l, c, n, stime) == NandStart(l, stime) + n * lat[c]

(* All LUNs are given a number of pages each. *)
ssd_advance_status(c, pages, stime) ==
  next_lun_avail_time' = [l \in Lun |-> IF pages[l] = 0 THEN next_lun_avail_time[l]
                                        ELSE NandEnd(l, c, pages[l], stime)]

(* What ssd_read and ssd_write return: the latency of the slowest page, or  *)
(* 0 if there was none.                                                    *)
IsMaxLatency(max_lat, c, pages, stime) ==
  /\ \A l \in Lun : pages[l] > 0 => NandEnd(l, c, pages[l], stime) - stime <= max_lat
  /\ \/ max_lat = 0 /\ \A l \in Lun : pages[l] = 0
     \/ \E l \in Lun : pages[l] > 0 /\ max_lat = NandEnd(l, c, pages[l], stime) - stime

MaxLatencies(c, pages, stime) ==
  {m \in {0} \union {NandEnd(l, c, pages[l], stime) - stime : l \in Lun} :
     IsMaxLatency(m, c, pages, stime)}

(* The time that do_gc takes of a LUN: pages read from it and written to   *)
(* it, and the erase of its block.  It begins now, for stime is 0.         *)
GcTime(reads, writes, l) ==
  reads[l] * lat["NAND_READ"] + writes[l] * lat["NAND_WRITE"] + lat["NAND_ERASE"]

GcAdvanceStatus(reads, writes) ==
  next_lun_avail_time' =
    [l \in Lun |-> NandStart(l, now) + GcTime(reads, writes, l)]

(* read_times and write_times of the procfs set the latency from now on;   *)
(* their numbers 0 and 1 are those of NAND_READ and NAND_WRITE.            *)
adjust_ftl_latency(c, t) ==
  /\ c \in {"NAND_READ", "NAND_WRITE"}
  /\ lat' = [lat EXCEPT ![c] = t]
  /\ UNCHANGED <<next_lun_avail_time, now>>
=============================================================================
