----------------------------- MODULE CycleCount -----------------------------
(***************************************************************************)
(* The charge cycle counts of the battery (health/CycleCountBackupRestore  *)
(* and cycle_count_backup of health/HealthServiceDefault.cpp).             *)
(*                                                                         *)
(* The fuel gauge counts cycles in buckets in its SRAM, which is cleared   *)
(* when the battery is disconnected.  The service keeps a copy in a file   *)
(* of /persist: it merges the two at start (Restore) and each time enough  *)
(* charge has gone in (Backup), taking the larger count of each bucket.    *)
(* The gauge goes on counting while the service works; there is one action *)
(* per access to the gauge or the file.                                    *)
(***************************************************************************)
EXTENDS Integers

CONSTANTS
    Buckets,         \* 0 .. kBucketCount - 1
    BackupTrigger,   \* kBackupTrigger
    Levels,          \* the battery levels that are reported
    MaxCycles,       \* bound on the cycles of a bucket in a behaviour
    Faults           \* the faults of a run

ASSUME CycleCountAssumption ==
    /\ BackupTrigger \in Nat \ {0} /\ MaxCycles \in Nat
    /\ Levels \subseteq Nat
    /\ Faults \subseteq {"kill", "powerLoss", "gaugeReset", "storageError", "gaugeError"}

VARIABLES
    real,       \* the cycles the battery has gone through
    sram,       \* the bins of the gauge
    file,       \* the bins in the file of /persist, Empty if it has none
    media,      \* the file as it is after a power loss
    flushed,    \* the largest bins that were on the medium, at any time since
                \* the last start at which "failed" was cleared
    sw, hw,     \* sw_bins_, hw_bins_
    failed,     \* an access to the gauge or the file has failed, and since then
                \* the service has not started with its file on the medium
    backup,     \* the flag of UpdateAndSave while it saves
    pc,         \* where the service is, "off" if it does not run
    savedSoc, socInc, isFirst

counts == <<real, sram, file, media, flushed>>
soc    == <<savedSoc, socInc, isFirst>>
vars   == <<counts, sw, hw, failed, backup, pc, soc>>

Zero == [b \in Buckets |-> 0]

(* A file that was truncated or deleted; sscanf finds no number in it.     *)
Empty == [b \in Buckets |-> -1]

Larger(x, y) == [b \in Buckets |-> IF x[b] < y[b] THEN y[b] ELSE x[b]]

AtMost(x, y) == \A b \in Buckets : x[b] <= y[b]

Init ==
    /\ real = Zero /\ sram = Zero
    /\ file = Empty /\ media = Empty /\ flushed = Empty
    /\ sw = Zero /\ hw = Zero /\ backup = FALSE /\ failed = FALSE
    /\ pc = "off"
    /\ savedSoc = 0 /\ socInc = 0 /\ isFirst = TRUE

-----------------------------------------------------------------------------
(* An access of the service to the gauge or the file fails.                *)
Fails(kind) == kind \in Faults /\ failed' = TRUE

(* The process starts: its static objects are zero.  Whatever an access    *)
(* that failed has cost, what is left is counted on from here.             *)
Start ==
    /\ pc = "off"
    /\ failed' = (failed /\ file # media)
    /\ flushed' = IF failed /\ file = media THEN media ELSE flushed
    /\ sw' = Zero /\ hw' = Zero /\ backup' = FALSE
    /\ savedSoc' = 0 /\ socInc' = 0 /\ isFirst' = TRUE
    /\ pc' = "readStorage"
    /\ UNCHANGED <<real, sram, file, media>>

ReadFromStorage ==
    /\ pc = "readStorage"
    /\ \/ sw' = (IF file = Empty THEN sw ELSE file) /\ UNCHANGED failed
       \/ sw' = sw /\ Fails("storageError")
    /\ pc' = "readSRAM"
    /\ UNCHANGED <<counts, hw, backup, soc>>

(* ReadFromSRAM, and the merge of UpdateAndSave.  Mutants: the counts are  *)
(* added; the bins of the gauge always win.                                *)
MergeAdds(gauge) ==
    /\ sw' = [b \in Buckets |-> IF gauge[b] = sw[b] THEN sw[b] ELSE gauge[b] + sw[b]]
    /\ hw' = sw'
    /\ backup' = (sw' # sw)
    /\ pc' = IF hw' # gauge THEN "saveSRAM" ELSE IF backup' THEN "saveStorage" ELSE "idle"

MergeGaugeWins(gauge) ==
    /\ sw' = gauge
    /\ hw' = gauge
    /\ backup' = (sw' # sw)
    /\ pc' = IF backup' THEN "saveStorage" ELSE "idle"

UpdateAndSave(gauge) ==
    /\ sw' = Larger(gauge, sw)
    /\ hw' = sw'
    /\ backup' = (sw' # sw)
    /\ pc' = IF hw' # gauge THEN "saveSRAM" ELSE IF backup' THEN "saveStorage" ELSE "idle"

ReadFromSRAM ==
    /\ pc = "readSRAM"
    /\ \/ UpdateAndSave(sram) /\ UNCHANGED failed
       \/ UpdateAndSave(hw) /\ Fails("gaugeError")
    /\ UNCHANGED <<counts, soc>>

AfterSRAM == IF backup THEN "saveStorage" ELSE "idle"

(* Mutant of SaveToSRAM: the gauge is written after the file is truncated. *)
SaveToSRAMLast ==
    /\ pc = "saveSRAM"
    /\ sram' = IF backup THEN sram ELSE hw
    /\ pc' = AfterSRAM
    /\ UNCHANGED <<failed, real, file, media, flushed, sw, hw, backup, soc>>

(* All bins are written, also those that were not raised.                  *)
SaveToSRAM ==
    /\ pc = "saveSRAM"
    /\ \/ sram' = hw /\ UNCHANGED failed
       \/ sram' = sram /\ Fails("gaugeError")
    /\ pc' = AfterSRAM
    /\ UNCHANGED <<real, file, media, flushed, sw, hw, backup, soc>>

(* WriteStringToFile truncates the file when it opens it and deletes it    *)
(* when the write fails; there is no fsync.                                *)
SaveToStorage ==
    /\ pc = "saveStorage"
    /\ \/ file' = Empty /\ pc' = "writeStorage" /\ UNCHANGED failed
       \/ file' = file /\ pc' = "idle" /\ Fails("storageError")
    /\ UNCHANGED <<real, sram, media, flushed, sw, hw, backup, soc>>

WriteStorage ==
    /\ pc = "writeStorage"
    /\ \/ file' = sw /\ UNCHANGED failed
       \/ file' = Empty /\ Fails("storageError")
    /\ pc' = "idle"
    /\ UNCHANGED <<real, sram, media, flushed, sw, hw, backup, soc>>

(* cycle_count_backup: the first level is only remembered; after that the  *)
(* rises add up until they are worth a backup.                             *)
BatteryUpdate(level) ==
    LET rise == IF isFirst \/ level <= savedSoc THEN 0 ELSE level - savedSoc
        due  == ~isFirst /\ socInc + rise >= BackupTrigger
    IN  /\ pc = "idle"
        /\ isFirst' = FALSE
        /\ savedSoc' = level
        /\ socInc' = IF due THEN 0 ELSE socInc + rise
        /\ pc' = IF due THEN "readSRAM" ELSE "idle"
        /\ UNCHANGED <<counts, sw, hw, failed, backup>>

-----------------------------------------------------------------------------
(* The gauge, whose driver counts at any time; the kernel; the faults.     *)
CountCycle(b) ==
    /\ real[b] < MaxCycles
    /\ real' = [real EXCEPT ![b] = @ + 1]
    /\ sram' = [sram EXCEPT ![b] = @ + 1]
    /\ UNCHANGED <<file, media, flushed, sw, hw, failed, backup, pc, soc>>

Flush ==
    /\ media # file
    /\ media' = file
    /\ flushed' = Larger(flushed, file)
    /\ UNCHANGED <<real, sram, file, sw, hw, failed, backup, pc, soc>>

Kill ==
    /\ "kill" \in Faults
    /\ pc # "off" /\ pc' = "off"
    /\ UNCHANGED <<counts, sw, hw, failed, backup, soc>>

(* A file that has not reached the medium is the old one, or empty.        *)
PowerLoss ==
    /\ "powerLoss" \in Faults
    /\ pc' = "off"
    /\ file' \in {media} \cup (IF file = media THEN {} ELSE {Empty})
    /\ media' = file'
    /\ UNCHANGED <<real, sram, flushed, sw, hw, failed, backup, soc>>

(* The battery is disconnected.  One copy is lost at a time: the one on    *)
(* the medium is as good as it ever was.                                   *)
GaugeReset ==
    /\ "gaugeReset" \in Faults
    /\ media = flushed /\ sram # Zero
    /\ sram' = Zero
    /\ pc' = "off" /\ file' = media
    /\ UNCHANGED <<real, media, flushed, sw, hw, failed, backup, soc>>

Service ==
    \/ Start \/ ReadFromStorage \/ ReadFromSRAM \/ SaveToSRAM
    \/ SaveToStorage \/ WriteStorage

Next ==
    \/ Service
    \/ \E level \in Levels : BatteryUpdate(level)
    \/ \E b \in Buckets : CountCycle(b)
    \/ Flush \/ Kill \/ PowerLoss \/ GaugeReset

Spec == Init /\ [][Next]_vars

(***************************************************************************)
(* Properties                                                              *)
(***************************************************************************)

Counts == [Buckets -> 0 .. MaxCycles]

Labels == {"off", "readStorage", "readSRAM", "saveSRAM", "saveStorage", "writeStorage", "idle"}

(* The types of the variables; a rise that is worth a backup is not kept.  *)
TypeOK ==
    /\ {real, sram, sw, hw} \subseteq Counts
    /\ {file, media, flushed} \subseteq Counts \cup {Empty}
    /\ {backup, failed} \subseteq BOOLEAN /\ isFirst \in BOOLEAN
    /\ pc \in Labels
    /\ savedSoc \in Levels \cup {0} /\ socInc \in 0 .. (BackupTrigger - 1)

(* No count is larger than the cycles the battery has gone through: a      *)
(* merge never invents cycles, whichever read failed and whatever was left *)
(* by an interrupted save.                                                 *)
NoPhantomCycles ==
    /\ AtMost(sram, real) /\ AtMost(sw, real) /\ AtMost(hw, real)
    /\ AtMost(file, real)

(* What has once reached the medium is never lost, whatever is killed or   *)
(* loses power and when: the file is truncated only while the gauge holds  *)
(* the counts, and the gauge is written before.  An access that fails may  *)
(* cost counts, until the service starts again; what is on the medium then *)
(* is safe again.                                                          *)
FlushedSurvives == ~failed => AtMost(flushed, Larger(sram, media))

(* A merge leaves no count behind: what a save writes to the file is at    *)
(* least what was on the medium at any time since the last start after an  *)
(* access that failed, if none has failed since then; over restarts, power *)
(* losses and resets of the gauge in between.  It says nothing of counts   *)
(* that only the file had and that never reached the medium.               *)
StoredNeverGoesBack ==
    [][pc = "writeStorage" /\ pc' = "idle" /\ ~failed' => AtMost(flushed, file')]_vars
=============================================================================
