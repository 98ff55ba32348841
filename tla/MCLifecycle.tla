---------------------------- MODULE MCLifecycle ----------------------------
(* Instances of Lifecycle for TLC: parameters that are right, and some that  *)
(* __validate_configs refuses.                                             *)
EXTENDS Lifecycle

Right == [memmap_start |-> 1, memmap_size |-> 2, region |-> "reserved", nr_io_units |-> 1,
          io_unit_shift |-> 1, read_time |-> 1, write_time |-> 1, nr_io_cpu |-> 2]

MCConfigs == {Right, [Right EXCEPT !.memmap_size = 1],
              [Right EXCEPT !.region = "ram"], [Right EXCEPT !.nr_io_units = 0]}
=============================================================================
