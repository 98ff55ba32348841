------------------------------- MODULE MCFtl -------------------------------
(* Instances of Ftl for TLC; the .cfg files give the geometry, the          *)
(* thresholds and the pages the host writes.                                *)
EXTENDS Ftl
=============================================================================
