-------------------------- MODULE BootUpdateRetry --------------------------
(***************************************************************************)
(* BootUpdate driven by an updater that goes through the stages in order,  *)
(* writes the granted copies after each success, skips a stage that is     *)
(* refused, and starts over after an interruption.  It keeps nothing       *)
(* across a restart: where to go on is decided by prepare_boot_update from *)
(* the headers alone.  The question is whether that is enough to finish.   *)
(***************************************************************************)
EXTENDS BootUpdate

CONSTANT MaxFaults   \* bound on the interruptions and errors of a behaviour

ASSUME RetryAssumption == MaxFaults \in Nat

(* prepare_boot_update switches the boot LUN while it visits the LUNs that *)
(* hold a backup: there is one.                                            *)
BootLunHasLuns == UsesXbl => UpdateLuns # {}

VARIABLES
    next,      \* the stage the updater calls next
    left,      \* the targets it has still to write under the current grant
    faults     \* how many faults have happened

retryVars == <<vars, next, left, faults>>

RetryInit == Init /\ next = UPDATE_MAIN /\ left = {} /\ faults = 0

Following(s) == IF s = UPDATE_FINALIZE THEN UPDATE_MAIN ELSE s + 1

(* What the updater may ask for: see Call.                                 *)
ImagesReady(s) ==
    /\ s = UPDATE_BACKUP => \A t \in Targets : <<t, "main">> \notin torn
    /\ s = UPDATE_FINALIZE => \A t \in Targets : <<t, "bak">> \notin torn

StartStage ==
    /\ left = {}
    /\ Call(next)
    /\ next' = Following(next)
    /\ UNCHANGED <<left, faults>>

SkipStage ==
    /\ pc = "idle" /\ left = {} /\ ~ImagesReady(next)
    /\ next' = Following(next)
    /\ UNCHANGED <<vars, left, faults>>

StageReturns ==
    /\ Return
    /\ left' = IF grant' = "none" THEN {} ELSE Targets
    /\ UNCHANGED <<next, faults>>

StageStep ==
    /\ \/ \E l \in Luns : Open(l)
       \/ CheckState \/ SwitchXbl \/ ChainStep \/ SetStateStep \/ Exit
    /\ UNCHANGED <<next, left, faults>>

WriteImage(t) ==
    /\ t \in left
    /\ \/ <<t, grant>> \notin torn /\ BeginWrite(t) /\ UNCHANGED left
       \/ EndWrite(t) /\ left' = left \ {t}
    /\ UNCHANGED <<next, faults>>

Fault ==
    /\ faults < MaxFaults
    /\ faults' = faults + 1
    /\ \/ (IoError \/ \E l \in Luns : OpenFails(l)) /\ UNCHANGED <<next, left>>
       \/ (Kill \/ PowerLoss) /\ next' = UPDATE_MAIN /\ left' = {}

Progress ==
    \/ StartStage \/ SkipStage \/ StageReturns \/ StageStep
    \/ \E t \in Targets : WriteImage(t)

RetryNext == Progress \/ Fault

(* The updater and the call it makes are one thread, which is scheduled.   *)
RetrySpec == RetryInit /\ [][RetryNext]_retryVars /\ WF_retryVars(Progress)

(***************************************************************************)
(* Properties                                                              *)
(***************************************************************************)

(* The device is as shipped, with every image complete.                    *)
Finalized ==
    /\ pc = "idle" /\ torn = {}
    /\ \A l \in UpdateLuns : media[l] = FactoryGpt(l)

(* Whatever was interrupted, wherever, the stages called in their order    *)
(* bring the device back: no header state is a dead end in which every     *)
(* stage is refused.  This needs a device on which no link is lost: the    *)
(* images of a LUN that was left out may be torn in both copies, and then  *)
(* there is no way back.                                                   *)
AlwaysFinalizesAgain == []<>Finalized

(* The boot LUN of xbl is switched by a query that cannot be made one with *)
(* the writes to the tables, and a restart cannot tell whether it was (see *)
(* ReadyBootsBackupXbl).  Until the first fault every target, xbl          *)
(* included, boots a complete image: the boot LUN and the tables of all    *)
(* the LUNs switch towards the same copies, in an order that never         *)
(* uncovers the copy that is being written.                                *)
FailsafeUntilFault == faults = 0 => Failsafe

(* Until the first fault the switch of the boot LUN and the writes to the  *)
(* tables of several LUNs implement the abstract failsafe update.          *)
ImplementsUntilFault ==
    /\ Abstract!Init
    /\ [][faults' > 0 \/ Abstract!Next]_(Abstract!vars)
=============================================================================
