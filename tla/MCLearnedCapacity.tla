------------------------- MODULE MCLearnedCapacity -------------------------
(* Instance of LearnedCapacity: capacities are small integers.             *)
EXTENDS LearnedCapacity

MCMaxCapacity == 4
=============================================================================
