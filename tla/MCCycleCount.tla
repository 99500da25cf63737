---------------------------- MODULE MCCycleCount ----------------------------
(* Instances of CycleCount: two buckets of up to two cycles, four battery  *)
(* levels and a backup after a rise of two.                                *)
EXTENDS CycleCount

MCBuckets == {0, 1}
MCLevels == 0 .. 3
=============================================================================
