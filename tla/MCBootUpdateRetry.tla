------------------------- MODULE MCBootUpdateRetry -------------------------
(***************************************************************************)
(* The devices of MCBootUpdate, for BootUpdateRetry.                       *)
(***************************************************************************)
EXTENDS BootUpdateRetry, MCBootUpdateInv

(* The hypotheses of the theorems hold of the device that is run.          *)
ASSUME BootLunHasLunsHere == BootLunHasLuns /\ LinksResolve
=============================================================================
