----------------------------- MODULE MCIoQueue -----------------------------
(* Instances of IoQueue for TLC.  In IoQueue.cfg the table is long enough   *)
(* that an entry is linked between two others, and there is a command more *)
(* than entries, so that one entry is used again, also while the worker is *)
(* at it or walks into it.  In IoQueueRace.cfg the table is so small that  *)
(* this comes soon.                                                        *)
EXTENDS IoQueue, TLC
=============================================================================
