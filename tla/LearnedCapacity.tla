-------------------------- MODULE LearnedCapacity --------------------------
(***************************************************************************)
(* The learned full charge capacity of the battery (health/                *)
(* LearnedCapacityBackupRestore, called from HealthServiceDefault.cpp).    *)
(* The gauge learns a capacity and forgets it when the battery is          *)
(* disconnected; the service keeps the smallest value it has seen in a     *)
(* file of /persist and writes it back to a gauge that reports more.       *)
(***************************************************************************)
EXTENDS Integers

CONSTANTS
    MaxCapacity,   \* the design capacity, in the unit of the instance
    Faults,        \* the faults of a run
    MaxFaults      \* bound on the faults of a behaviour

ASSUME LearnedCapacityAssumption ==
    /\ MaxCapacity \in Nat \ {0} /\ MaxFaults \in Nat
    /\ Faults \subseteq {"kill", "powerLoss", "gaugeReset", "storageError", "gaugeError"}

VARIABLES
    gauge,    \* charge_full of the gauge; 0 until it has a value
    file,     \* the number in the file of /persist, Empty if it has none
    media,    \* the file as it is after a power loss
    stored,   \* the last number the service wrote to the file or read from
              \* it, 0 if there was none or if it has forgotten the number; after
              \* a power loss, what is left of the file
    sw, hw,   \* sw_cap_, hw_cap_
    pc,       \* where the service is, "off" if it does not run
    faults    \* how many faults have happened

vars == <<gauge, file, media, stored, sw, hw, pc, faults>>

(* A file that was truncated or deleted: sscanf finds no number in it.     *)
Empty == -1

Init ==
    /\ gauge \in {0, MaxCapacity}
    /\ file = Empty /\ media = Empty /\ stored = 0
    /\ sw = 0 /\ hw = 0
    /\ pc = "off" /\ faults = 0

Fault(kind) == kind \in Faults /\ faults < MaxFaults /\ faults' = faults + 1

-----------------------------------------------------------------------------
(* Mutant of Start: the file is not read at start.                         *)
StartWithBackup ==
    /\ pc = "off"
    /\ sw' = 0 /\ hw' = 0
    /\ pc' = "readSRAM"
    /\ UNCHANGED <<gauge, file, media, stored, faults>>

Start ==
    /\ pc = "off"
    /\ sw' = 0 /\ hw' = 0
    /\ pc' = "readStorage"
    /\ UNCHANGED <<gauge, file, media, stored, faults>>

ReadFromStorage ==
    /\ pc = "readStorage"
    /\ \/ file = Empty /\ UNCHANGED <<sw, stored, faults>>
       \/ file # Empty /\ sw' = file /\ stored' = file /\ UNCHANGED faults
       \/ UNCHANGED sw /\ stored' = 0 /\ Fault("storageError")
    /\ pc' = "readSRAM"
    /\ UNCHANGED <<gauge, file, media, hw>>

(* Mutants of UpdateAndSave: an unset copy counts as a capacity of zero;   *)
(* the larger value wins.                                                  *)
UpdateAndSaveUnsetIsZero(read) ==
    CASE read # 0 /\ read < sw -> sw' = read /\ hw' = read /\ pc' = "saveStorage"
      [] read # 0 /\ read > sw -> sw' = sw /\ hw' = sw /\ pc' = "saveSRAM"
      [] OTHER -> sw' = sw /\ hw' = read /\ pc' = "idle"

UpdateAndSaveIgnoresGrown(read) ==
    CASE read # 0 /\ (read < sw \/ sw = 0) -> sw' = read /\ hw' = read /\ pc' = "saveStorage"
      [] OTHER -> sw' = sw /\ hw' = read /\ pc' = "idle"

UpdateAndSave(read) ==
    CASE read # 0 /\ (read < sw \/ sw = 0) -> sw' = read /\ hw' = read /\ pc' = "saveStorage"
      [] read # 0 /\ sw # 0 /\ read > sw -> sw' = sw /\ hw' = sw /\ pc' = "saveSRAM"
      [] OTHER -> sw' = sw /\ hw' = read /\ pc' = "idle"

(* ReadFromSRAM and UpdateAndSave; a failed read leaves hw_cap_ as it was. *)
ReadFromSRAM ==
    /\ pc = "readSRAM"
    /\ \/ UpdateAndSave(gauge) /\ UNCHANGED faults
       \/ UpdateAndSave(hw) /\ Fault("gaugeError")
    /\ UNCHANGED <<gauge, file, media, stored>>

SaveToSRAM ==
    /\ pc = "saveSRAM"
    /\ \/ gauge' = hw /\ UNCHANGED faults
       \/ gauge' = gauge /\ Fault("gaugeError")
    /\ pc' = "idle"
    /\ UNCHANGED <<file, media, stored, sw, hw>>

(* WriteStringToFile truncates the file when it opens it and deletes it    *)
(* when the write fails; there is no fsync.                                *)
SaveToStorage ==
    /\ pc = "saveStorage"
    /\ \/ file' = Empty /\ pc' = "writeStorage" /\ UNCHANGED faults
       \/ file' = file /\ pc' = "idle" /\ Fault("storageError")
    /\ UNCHANGED <<gauge, media, stored, sw, hw>>

WriteStorage ==
    /\ pc = "writeStorage"
    /\ \/ file' = sw /\ stored' = sw /\ UNCHANGED faults
       \/ UNCHANGED <<file, stored>> /\ Fault("storageError")
    /\ pc' = "idle"
    /\ UNCHANGED <<gauge, media, sw, hw>>

(* healthd_board_battery_update calls Backup on every update.              *)
BatteryUpdate ==
    /\ pc = "idle" /\ pc' = "readSRAM"
    /\ UNCHANGED <<gauge, file, media, stored, sw, hw, faults>>

-----------------------------------------------------------------------------
(* The gauge learns at any time, up or down.                               *)
Learn(capacity) ==
    /\ gauge # capacity /\ gauge' = capacity
    /\ UNCHANGED <<file, media, stored, sw, hw, pc, faults>>

Flush ==
    /\ media # file /\ media' = file
    /\ UNCHANGED <<gauge, file, stored, sw, hw, pc, faults>>

(* The process ends: what it has not written is lost.                      *)
ServiceLost ==
    /\ pc' = "off"
    /\ stored' = IF stored = 0 \/ file' = Empty THEN 0 ELSE file'
    /\ UNCHANGED <<sw, hw>>

Kill ==
    /\ Fault("kill")
    /\ pc # "off"
    /\ UNCHANGED <<gauge, file, media>>
    /\ ServiceLost

(* A file that has not reached the medium is the old one, or empty.        *)
FileLost ==
    /\ file' \in {media} \cup (IF file = media THEN {} ELSE {Empty})
    /\ media' = file'
    /\ ServiceLost

PowerLoss ==
    /\ Fault("powerLoss")
    /\ FileLost
    /\ UNCHANGED gauge

(* The battery is disconnected, and with it the power.                     *)
GaugeReset ==
    /\ Fault("gaugeReset")
    /\ gauge' \in {0, MaxCapacity}
    /\ FileLost

Service ==
    \/ Start \/ ReadFromStorage \/ ReadFromSRAM \/ SaveToSRAM
    \/ SaveToStorage \/ WriteStorage \/ BatteryUpdate

Next ==
    \/ Service
    \/ \E capacity \in 1 .. MaxCapacity : Learn(capacity)
    \/ Flush \/ Kill \/ PowerLoss \/ GaugeReset

Spec == Init /\ [][Next]_vars

(* healthd is a loop that is woken up periodically for a battery update.   *)
FairSpec == Spec /\ WF_vars(Service)

(***************************************************************************)
(* Properties                                                              *)
(***************************************************************************)

Capacities == 0 .. MaxCapacity

(* The types of the variables; a capacity of 0, "no value", is neither     *)
(* written to the file nor to the gauge.                                   *)
TypeOK ==
    /\ {gauge, sw, hw, stored} \subseteq Capacities
    /\ {file, media} \subseteq (Capacities \cup {Empty}) \ {0}
    /\ pc \in {"off", "readStorage", "readSRAM", "saveSRAM", "saveStorage", "writeStorage", "idle"}
    /\ pc = "saveSRAM" => hw # 0
    /\ faults \in 0 .. MaxFaults

(* The stored capacity only goes down, across restarts of the service,     *)
(* resets of the gauge to the design capacity, values the gauge learns     *)
(* meanwhile, and accesses that fail, unless the power is lost before the  *)
(* file is written back: nothing syncs it, and the larger number of an     *)
(* earlier save comes back.  It starts anew where "stored" says so: a      *)
(* service that dies between the truncation of the file and the write, or  *)
(* that cannot read the file at start, forgets the capacity.               *)
StoredOnlyShrinks ==
    [][stored # 0 /\ stored' > stored => file # media /\ FileLost]_vars

(* A gauge that reports more than the stored capacity is brought down to   *)
(* it, again and again, once accesses have stopped to fail.                *)
GaugeIsBroughtDown == []<>(stored # 0 => gauge <= stored)
=============================================================================
