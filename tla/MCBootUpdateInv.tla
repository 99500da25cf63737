-------------------------- MODULE MCBootUpdateInv --------------------------
(***************************************************************************)
(* The devices of MCBootUpdate with the inductive invariant.               *)
(***************************************************************************)
EXTENDS MCBootUpdate, BootUpdateInv

(* The hypothesis of the theorems holds of the devices that are run.       *)
ASSUME OrderedWritesHere == OrderedWrites
=============================================================================
