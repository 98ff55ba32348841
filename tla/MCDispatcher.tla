---------------------------- MODULE MCDispatcher ----------------------------
(* Instances of Dispatcher for TLC. *)
EXTENDS Dispatcher

Long   == [op |-> "write", slba |-> 0, len |-> 4, offs |-> 0]   \* two whole pages
Write  == [op |-> "write", slba |-> 1, len |-> 1, offs |-> 1]   \* a piece inside a page
Read   == [op |-> "read",  slba |-> 1, len |-> 2, offs |-> 0]   \* over a border of the flash
Beyond == [op |-> "write", slba |-> 1, len |-> 5, offs |-> 0]   \* ends beyond the flash; has a PRP list
Flush  == [op |-> "flush", slba |-> 0, len |-> 1, offs |-> 0]

(* The fourth command takes the slot of the first. *)
MCKinds == <<{Long, Write}, {Flush, Read}, {Write, Beyond}, {Read, Long}>>
=============================================================================
