----------------------------- MODULE BootUpdate -----------------------------
(***************************************************************************)
(* The failsafe update of the boot critical partitions                     *)
(* (gpt-utils/gpt-utils.cpp, prepare_boot_update and what it calls).       *)
(*                                                                         *)
(* An updater overwrites the main copies, then the backup copies.  Before  *)
(* each half it calls prepare_boot_update(stage), which makes every LUN    *)
(* boot from the copies that are not about to be overwritten:              *)
(*   UPDATE_MAIN      secondary table := backup chain, primary corrupted   *)
(*   UPDATE_BACKUP    primary fixed, secondary corrupted                   *)
(*   UPDATE_FINALIZE  secondary table := copy of the primary, fixed        *)
(* There is one action per write to the device, so that a power loss, a    *)
(* kill or an I/O error can fall between any two of them.                  *)
(***************************************************************************)
EXTENDS GptTable

CONSTANTS
    Luns,          \* the block devices that hold boot critical partitions
    FactoryRows,   \* FactoryRows[l]: the partition entries of l as shipped
    Xbl,           \* PTN_XBL, whose copies are the UFS boot LUNs A and B
    HasXblPair,    \* stat(XBL_PRIMARY) and stat(XBL_BACKUP) both succeed
    Faults,        \* the faults of a run
    WriteBack,     \* TRUE: writes reach the medium late and in any order
    Torn           \* an entries array that is neither the old nor the new one

FaultKinds == {"powerLoss", "kill", "ioError", "shortWrite", "decay", "lostLink"}

ASSUME BootUpdateAssumption ==
    /\ IsUfs \/ \E l \in Luns : Luns = {l}
    /\ "none" \notin Luns /\ "boot" \notin Luns
    /\ Xbl \in SwapNames
    /\ Faults \subseteq FaultKinds
    /\ WriteBack \in BOOLEAN /\ HasXblPair \in BOOLEAN
    /\ DOMAIN FactoryRows = Luns
    /\ \A l \in Luns : /\ IsFactoryTable(FactoryRows[l])
                       /\ Torn # FactoryRows[l]
                       /\ Torn # BootChainSwap(FactoryRows[l])

UPDATE_MAIN     == 1
UPDATE_BACKUP   == 2
UPDATE_FINALIZE == 3
Stages == {UPDATE_MAIN, UPDATE_BACKUP, UPDATE_FINALIZE}

VARIABLES
    disk,      \* disk[l]: both tables of l as read(2) returns them
    media,     \* media[l]: both tables of l as they are after a power loss
    bootLun,   \* the UFS attribute bBootLunEn: "A" or "B"
    pc,        \* where the call of prepare_boot_update is, "idle" if there is none
    stage,     \* its argument
    lunList,   \* data.lun_list of the call, or of the one that gave the grant
    todo,      \* the LUNs of the list prepare_boot_update has still to visit
    cur,       \* dev_path of the current prepare_partitions
    r,         \* its return value: 0 or not
    isError,   \* is_error
    grant,     \* the copy the updater may overwrite after the last return
    torn,      \* the images <<target, copy>> that are not completely written
    exposed    \* history: the LUNs whose images were written under a grant of
               \* a call that had left them out

tables == <<disk, media>>
frame  == <<pc, stage, lunList, todo, cur, r, isError>>
vars   == <<disk, media, bootLun, pc, stage, lunList, todo, cur, r, isError,
            grant, torn, exposed>>

-----------------------------------------------------------------------------
(* One table: the state gpt_get_state reports for its header, the array    *)
(* its header's array CRC was computed from, and the array itself.         *)
States == {"OK", "BAD_SIGNATURE", "BAD_CRC"}

FactoryGpt(l) ==
    LET table == [st |-> "OK", crc |-> FactoryRows[l], arr |-> FactoryRows[l]]
    IN  [prim |-> table, sec |-> table]

(* The LUNs prepare_boot_update has to visit: those a link                 *)
(* /dev/block/bootdevice/by-name/<name>bak points to; on eMMC there is one *)
(* device.  The order of the list is the order of the links: any order is  *)
(* allowed here.                                                           *)
UpdateLuns ==
    IF IsUfs
    THEN {l \in Luns : \E i \in DOMAIN FactoryRows[l] :
             /\ FactoryRows[l][i].ptn \in SwapNames
             /\ ~Skipped(FactoryRows[l][i].ptn)
             /\ FactoryRows[l][i].copy = "bak"}
    ELSE Luns

(* The lists it may gather.  A link that cannot be read, that resolves to  *)
(* too short a path, or to a LUN that cannot be accessed, is skipped       *)
(* without an error; a LUN that loses all its links is left out.           *)
LunLists == IF IsUfs /\ "lostLink" \in Faults THEN SUBSET UpdateLuns ELSE {UpdateLuns}

(* The images a failsafe update protects: the partitions of PTN_SWAP_LIST  *)
(* that have a backup twin in the table of l, and the xbl of the boot LUNs.*)
LunTargets(l) ==
    {<<l, p>> : p \in {q \in SwapNames :
                          Backed(FactoryRows[l], q) /\ ~(IsUfs /\ q = Xbl)}}

XblTarget == <<"boot", Xbl>>

UsesXbl == IsUfs /\ HasXblPair

TableTargets == UNION {LunTargets(l) : l \in Luns}

Targets == TableTargets \cup (IF UsesXbl THEN {XblTarget} ELSE {})

(* The boot loader: the primary table if its header and its array check    *)
(* out, else the secondary one.                                            *)
Valid(table) == table.st = "OK" /\ table.crc = table.arr

BootsFrom(gpt, which) ==
    /\ Valid(gpt[which])
    /\ which = "sec" => ~Valid(gpt.prim)

Boots(t, c) ==
    IF t = XblTarget
    THEN bootLun = IF c = "main" THEN "A" ELSE "B"
    ELSE \E which \in {"prim", "sec"} :
            /\ BootsFrom(media[t[1]], which)
            /\ Loads(media[t[1]][which].arr, t[2], c)

-----------------------------------------------------------------------------
(* blk_rw.  A write changes the page cache, and the medium at once or      *)
(* later.                                                                  *)
Write(l, which, table) ==
    /\ disk' = [disk EXCEPT ![l][which] = table]
    /\ media' = IF WriteBack THEN media ELSE [media EXCEPT ![l][which] = table]

(* gpt_set_state: read the header, set or spoil its signature, write back. *)
SetState(l, which, st) == Write(l, which, [disk[l][which] EXCEPT !.st = st])

(* prepare_partitions goes on with its next write, or to its EXIT label.   *)
Goto(label) == pc' = label /\ UNCHANGED <<stage, lunList, todo, cur, r, isError>>

ExitWith(code) ==
    /\ pc' = "exit"
    /\ r' = code
    /\ UNCHANGED <<stage, lunList, todo, cur, isError>>

Init ==
    /\ disk = [l \in Luns |-> FactoryGpt(l)]
    /\ media = disk
    /\ bootLun = "A"
    /\ pc = "idle" /\ stage = 0 /\ cur = "none" /\ r = 0 /\ isError = FALSE
    /\ lunList = {} /\ todo = {}
    /\ grant = "none"
    /\ torn = {} /\ exposed = {}

(* The updater starts a stage.  It never asks to boot from copies that it  *)
(* has not finished writing.                                               *)
Call(s) ==
    /\ pc = "idle"
    /\ s = UPDATE_BACKUP => \A t \in Targets : <<t, "main">> \notin torn
    /\ s = UPDATE_FINALIZE => \A t \in Targets : <<t, "bak">> \notin torn
    /\ lunList' \in LunLists /\ todo' = lunList'
    /\ pc' = "loop" /\ stage' = s /\ isError' = FALSE
    /\ grant' = "none"
    /\ UNCHANGED <<cur, r, tables, bootLun, torn, exposed>>

Open(l) ==
    /\ pc = "loop" /\ l \in todo
    /\ pc' = "check" /\ cur' = l /\ r' = 0
    /\ UNCHANGED <<stage, lunList, todo, isError, tables, bootLun, grant, torn, exposed>>

OpenFails(l) ==
    /\ "ioError" \in Faults
    /\ pc = "loop" /\ l \in todo
    /\ todo' = todo \ {l} /\ isError' = TRUE
    /\ UNCHANGED <<pc, stage, lunList, cur, r, tables, bootLun, grant, torn, exposed>>

(* Mutant of InternalStage: a damaged header counts as a corrupted one.    *)
InternalStageIgnoresCrc(gpt) ==
    CASE gpt.prim.st # "OK" /\ gpt.sec.st # "OK" -> 0
      [] gpt.prim.st = "OK" /\ gpt.sec.st = "OK" -> UPDATE_MAIN
      [] gpt.prim.st # "OK" /\ gpt.sec.st = "OK" -> UPDATE_BACKUP
      [] gpt.prim.st = "OK" /\ gpt.sec.st # "OK" -> UPDATE_FINALIZE

(* The update stage the device is ready for, 0 if its tables are in a      *)
(* state prepare_partitions refuses to work on.                            *)
InternalStage(gpt) ==
    CASE gpt.prim.st = "BAD_CRC" \/ gpt.sec.st = "BAD_CRC" -> 0
      [] gpt.prim.st = "BAD_SIGNATURE" /\ gpt.sec.st = "BAD_SIGNATURE" -> 0
      [] gpt.prim.st = "OK" /\ gpt.sec.st = "OK" -> UPDATE_MAIN
      [] gpt.prim.st = "BAD_SIGNATURE" /\ gpt.sec.st = "OK" -> UPDATE_BACKUP
      [] gpt.prim.st = "OK" /\ gpt.sec.st = "BAD_SIGNATURE" -> UPDATE_FINALIZE

(* Mutant of FirstWrite: UPDATE_BACKUP forgets the boot LUN.               *)
FirstWriteNoXbl(s) ==
    CASE s = UPDATE_MAIN /\ UsesXbl -> "xbl"
      [] s = UPDATE_BACKUP -> "fixPrim"
      [] OTHER -> "chainHeader"

FirstWrite(s) ==
    CASE s \in {UPDATE_MAIN, UPDATE_BACKUP} /\ UsesXbl -> "xbl"
      [] s = UPDATE_BACKUP /\ ~UsesXbl -> "fixPrim"
      [] OTHER -> "chainHeader"

CheckRefused ==
    /\ pc = "check"
    /\ InternalStage(disk[cur]) = 0 \/ InternalStage(disk[cur]) \notin {stage, stage + 1}
    /\ ExitWith(-1)
    /\ UNCHANGED <<tables, bootLun, grant, torn, exposed>>

(* Mutants of CheckAlreadySet: any other stage counts as already set; a    *)
(* stage that is already set is refused.                                   *)
CheckAlreadySetAnyStage ==
    /\ pc = "check"
    /\ InternalStage(disk[cur]) \notin {0, stage}
    /\ ExitWith(0)
    /\ UNCHANGED <<tables, bootLun, grant, torn, exposed>>

CheckAlreadySetRefused ==
    /\ pc = "check"
    /\ InternalStage(disk[cur]) = stage + 1
    /\ ExitWith(-1)
    /\ UNCHANGED <<tables, bootLun, grant, torn, exposed>>

(* "Stage already set - ready for update"                                  *)
CheckAlreadySet ==
    /\ pc = "check"
    /\ InternalStage(disk[cur]) = stage + 1
    /\ ExitWith(0)
    /\ UNCHANGED <<tables, bootLun, grant, torn, exposed>>

(* Mutant of CheckReady: an unexpected stage is not refused.               *)
CheckReadyAnyStage ==
    /\ pc = "check"
    /\ InternalStage(disk[cur]) \notin {0, stage + 1}
    /\ Goto(FirstWrite(stage))
    /\ UNCHANGED <<tables, bootLun, grant, torn, exposed>>

CheckReady ==
    /\ pc = "check"
    /\ InternalStage(disk[cur]) = stage
    /\ Goto(FirstWrite(stage))
    /\ UNCHANGED <<tables, bootLun, grant, torn, exposed>>

(* Mutant of SwitchXbl: the two boot LUN ids are exchanged.                *)
SwitchXblSwapped ==
    /\ pc = "xbl"
    /\ bootLun' = IF stage = UPDATE_MAIN THEN "A" ELSE "B"
    /\ Goto(IF stage = UPDATE_MAIN THEN "chainHeader" ELSE "fixPrim")
    /\ UNCHANGED <<tables, grant, torn, exposed>>

(* gpt_utils_set_xbl_boot_partition: a query to the UFS device, durable.   *)
SwitchXbl ==
    /\ pc = "xbl"
    /\ bootLun' = IF stage = UPDATE_MAIN THEN "B" ELSE "A"
    /\ Goto(IF stage = UPDATE_MAIN THEN "chainHeader" ELSE "fixPrim")
    /\ UNCHANGED <<tables, grant, torn, exposed>>

(***************************************************************************)
(* gpt2_set_boot_chain derives the secondary array from the primary one,   *)
(* then writes the secondary header and, after it, the secondary array.    *)
(***************************************************************************)
(* Mutant of NewRows: the last entry of the array is left out.             *)
NewRowsShort(l) == SubSeq(disk[l].prim.arr, 1, Len(disk[l].prim.arr) - 1)

NewRows(l) ==
    IF stage = UPDATE_MAIN THEN BootChainSwap(disk[l].prim.arr) ELSE disk[l].prim.arr

ChainArrayBad ==
    /\ pc = "chainHeader"
    /\ disk[cur].prim.crc # disk[cur].prim.arr
    /\ ExitWith(-1)
    /\ UNCHANGED <<tables, bootLun, grant, torn, exposed>>

(* "No backup partitions - do not corrupt GPT, do not flag error"          *)
ChainNoBackup ==
    /\ pc = "chainHeader" /\ stage = UPDATE_MAIN
    /\ disk[cur].prim.crc = disk[cur].prim.arr
    /\ ~BackupFound(disk[cur].prim.arr)
    /\ ExitWith(0)
    /\ UNCHANGED <<tables, bootLun, grant, torn, exposed>>

(* Mutants of ChainHeader: "no backup found" is ignored; the signature is  *)
(* repaired before the array is written.                                   *)
ChainHeaderAlways ==
    /\ pc = "chainHeader"
    /\ disk[cur].prim.crc = disk[cur].prim.arr
    /\ Write(cur, "sec", [disk[cur].sec EXCEPT !.crc = NewRows(cur)])
    /\ Goto("chainRows")
    /\ UNCHANGED <<bootLun, grant, torn, exposed>>

ChainHeaderSigned ==
    /\ pc = "chainHeader"
    /\ disk[cur].prim.crc = disk[cur].prim.arr
    /\ stage = UPDATE_MAIN => BackupFound(disk[cur].prim.arr)
    /\ Write(cur, "sec", [disk[cur].sec EXCEPT !.crc = NewRows(cur), !.st = "OK"])
    /\ Goto("chainRows")
    /\ UNCHANGED <<bootLun, grant, torn, exposed>>

ChainHeader ==
    /\ pc = "chainHeader"
    /\ disk[cur].prim.crc = disk[cur].prim.arr
    /\ stage = UPDATE_MAIN => BackupFound(disk[cur].prim.arr)
    /\ Write(cur, "sec", [disk[cur].sec EXCEPT !.crc = NewRows(cur)])
    /\ Goto("chainRows")
    /\ UNCHANGED <<bootLun, grant, torn, exposed>>

AfterChain == IF stage = UPDATE_MAIN THEN "corruptPrim" ELSE "fixSec"

(* Mutant of ChainRows: the array goes to the primary table.               *)
ChainRowsToPrimary ==
    /\ pc = "chainRows"
    /\ Write(cur, "prim", [disk[cur].prim EXCEPT !.arr = NewRows(cur)])
    /\ Goto(AfterChain)
    /\ UNCHANGED <<bootLun, grant, torn, exposed>>

ChainRows ==
    /\ pc = "chainRows"
    /\ Write(cur, "sec", [disk[cur].sec EXCEPT !.arr = NewRows(cur)])
    /\ Goto(AfterChain)
    /\ UNCHANGED <<bootLun, grant, torn, exposed>>

(* write(2) accepts a part of the array; blk_rw only looks for r < 0.      *)
ChainRowsShort ==
    /\ "shortWrite" \in Faults
    /\ pc = "chainRows"
    /\ Write(cur, "sec", [disk[cur].sec EXCEPT !.arr = Torn])
    /\ Goto(AfterChain)
    /\ UNCHANGED <<bootLun, grant, torn, exposed>>

CorruptPrimary ==
    /\ pc = "corruptPrim"
    /\ SetState(cur, "prim", "BAD_SIGNATURE")
    /\ Goto("exit")
    /\ UNCHANGED <<bootLun, grant, torn, exposed>>

FixPrimary ==
    /\ pc = "fixPrim"
    /\ SetState(cur, "prim", "OK")
    /\ Goto("corruptSec")
    /\ UNCHANGED <<bootLun, grant, torn, exposed>>

CorruptSecondary ==
    /\ pc = "corruptSec"
    /\ SetState(cur, "sec", "BAD_SIGNATURE")
    /\ Goto("exit")
    /\ UNCHANGED <<bootLun, grant, torn, exposed>>

FixSecondary ==
    /\ pc = "fixSec"
    /\ SetState(cur, "sec", "OK")
    /\ Goto("exit")
    /\ UNCHANGED <<bootLun, grant, torn, exposed>>

(* Any query, read or write of prepare_partitions fails: every one of them *)
(* is followed by "goto EXIT" with a non-zero r.                           *)
IoError ==
    /\ "ioError" \in Faults
    /\ pc \in {"check", "xbl", "chainHeader", "chainRows", "corruptPrim",
               "fixPrim", "corruptSec", "fixSec"}
    /\ ExitWith(-1)
    /\ \/ UNCHANGED tables
       \/ pc = "chainRows" /\ Write(cur, "sec", [disk[cur].sec EXCEPT !.arr = Torn])
    /\ UNCHANGED <<bootLun, grant, torn, exposed>>

(* Mutants of Exit: no fsync; only the last LUN decides about the error.   *)
ExitNoSync ==
    /\ pc = "exit"
    /\ pc' = "loop" /\ todo' = todo \ {cur} /\ cur' = "none" /\ r' = 0
    /\ isError' = (isError \/ r # 0)
    /\ UNCHANGED <<stage, lunList, tables, bootLun, grant, torn, exposed>>

ExitLastResult ==
    /\ pc = "exit"
    /\ media' = [media EXCEPT ![cur] = disk[cur]]
    /\ pc' = "loop" /\ todo' = todo \ {cur} /\ cur' = "none" /\ r' = 0
    /\ isError' = (r # 0)
    /\ UNCHANGED <<stage, lunList, disk, bootLun, grant, torn, exposed>>

(* EXIT: fsync and close; prepare_boot_update notes an error and goes on   *)
(* with the next LUN.                                                      *)
Exit ==
    /\ pc = "exit"
    /\ media' = [media EXCEPT ![cur] = disk[cur]]
    /\ pc' = "loop" /\ todo' = todo \ {cur} /\ cur' = "none" /\ r' = 0
    /\ isError' = (isError \/ r # 0)
    /\ UNCHANGED <<stage, lunList, disk, bootLun, grant, torn, exposed>>

Granted(s) ==
    CASE s = UPDATE_MAIN -> "main" [] s = UPDATE_BACKUP -> "bak" [] OTHER -> "none"

Return ==
    /\ pc = "loop" /\ todo = {}
    /\ grant' = IF isError THEN "none" ELSE Granted(stage)
    /\ lunList' = IF grant' = "none" THEN {} ELSE lunList
    /\ pc' = "idle" /\ stage' = 0 /\ isError' = FALSE
    /\ UNCHANGED <<todo, cur, r, tables, bootLun, torn, exposed>>

-----------------------------------------------------------------------------
(* The updater, between two calls: it writes the copies it may overwrite.  *)
BeginWrite(t) ==
    /\ pc = "idle" /\ grant # "none"
    /\ torn' = torn \cup {<<t, grant>>}
    /\ exposed' = exposed \cup {l \in Luns \ lunList : t[1] = l}
    /\ UNCHANGED <<tables, bootLun, frame, grant>>

EndWrite(t) ==
    /\ pc = "idle" /\ grant # "none"
    /\ <<t, grant>> \in torn
    /\ torn' = torn \ {<<t, grant>>}
    /\ UNCHANGED <<tables, bootLun, frame, grant, exposed>>

(* The page cache: the kernel writes a dirty header, a dirty array or a    *)
(* part of a dirty array back at any time.                                 *)
Flush(l, which) ==
    LET now == media[l][which]
        new == disk[l][which]
    IN  /\ WriteBack
        /\ \E table \in {[now EXCEPT !.st = new.st, !.crc = new.crc],
                         [now EXCEPT !.arr = new.arr],
                         [now EXCEPT !.arr = IF now.arr = new.arr THEN new.arr ELSE Torn]} :
              media' = [media EXCEPT ![l][which] = table]
        /\ UNCHANGED <<disk, bootLun, frame, grant, torn, exposed>>

Interrupted ==
    /\ pc' = "idle" /\ stage' = 0 /\ cur' = "none" /\ r' = 0 /\ isError' = FALSE
    /\ lunList' = {} /\ todo' = {}
    /\ grant' = "none"
    /\ UNCHANGED <<bootLun, torn, exposed>>

(* The updater dies and is started again; an array it was writing may be   *)
(* half written.                                                           *)
Kill ==
    /\ "kill" \in Faults
    /\ \/ UNCHANGED tables
       \/ pc = "chainRows" /\ Write(cur, "sec", [disk[cur].sec EXCEPT !.arr = Torn])
    /\ Interrupted

(* The device loses power and boots again: the page cache is gone.         *)
PowerLoss ==
    /\ "powerLoss" \in Faults
    /\ \/ media' = media
       \/ /\ pc = "chainRows" /\ ~WriteBack
          /\ media' = [media EXCEPT ![cur]["sec"] = [@ EXCEPT !.arr = Torn]]
    /\ disk' = media'
    /\ Interrupted

(* A header or an array goes bad on a device that is not being updated     *)
(* (bounded: one damaged table at a time).                                 *)
Decay(l, which) ==
    /\ "decay" \in Faults
    /\ pc = "idle" /\ grant = "none"
    /\ \A k \in Luns, w \in {"prim", "sec"} : Valid(disk[k][w])
    /\ \E table \in {[disk[l][which] EXCEPT !.st = "BAD_CRC"],
                     [disk[l][which] EXCEPT !.arr = Torn]} :
          /\ disk' = [disk EXCEPT ![l][which] = table]
          /\ media' = [media EXCEPT ![l][which] = table]
    /\ UNCHANGED <<bootLun, frame, grant, torn, exposed>>

CheckState == CheckRefused \/ CheckAlreadySet \/ CheckReady

ChainStep == ChainArrayBad \/ ChainNoBackup \/ ChainHeader \/ ChainRows \/ ChainRowsShort

SetStateStep == CorruptPrimary \/ FixPrimary \/ CorruptSecondary \/ FixSecondary

CallStep ==
    \/ \E l \in Luns : Open(l) \/ OpenFails(l)
    \/ CheckState \/ SwitchXbl \/ ChainStep \/ SetStateStep \/ IoError
    \/ Exit \/ Return

Environment ==
    \/ \E s \in Stages : Call(s)
    \/ \E t \in Targets : BeginWrite(t) \/ EndWrite(t)
    \/ \E l \in Luns, which \in {"prim", "sec"} : Flush(l, which) \/ Decay(l, which)
    \/ Kill \/ PowerLoss

Next == CallStep \/ Environment

Spec == Init /\ [][Next]_vars

(***************************************************************************)
(* Properties                                                              *)
(***************************************************************************)

Arrays == UNION {{FactoryRows[l], BootChainSwap(FactoryRows[l])} : l \in Luns}

TableType == [st : States, crc : Arrays, arr : Arrays \cup {Torn}]

GptType == [prim : TableType, sec : TableType]

Labels == {"idle", "loop", "check", "xbl", "chainHeader", "chainRows", "corruptPrim",
           "fixPrim", "corruptSec", "fixSec", "exit"}

(* The types of the variables; the tables hold no array but the shipped    *)
(* one, the swapped one and a torn one.                                    *)
TypeOK ==
    /\ disk \in [Luns -> GptType]
    /\ media \in [Luns -> GptType]
    /\ bootLun \in {"A", "B"}
    /\ pc \in Labels
    /\ stage \in Stages \cup {0}
    /\ todo \subseteq lunList /\ lunList \subseteq UpdateLuns
    /\ cur \in Luns \cup {"none"}
    /\ r \in {0, -1}
    /\ isError \in BOOLEAN
    /\ grant \in Copies \cup {"none"}
    /\ torn \subseteq Targets \X Copies
    /\ exposed \subseteq Luns

(* A failsafe update: whatever step of prepare_boot_update or of the       *)
(* updater a fault interrupts, what is left on the device boots a complete *)
(* image of every boot critical target.  FailsafeTables leaves out the xbl *)
(* of the UFS boot LUNs, which no table selects, and the LUNs whose links  *)
(* were lost in a call that returned success and whose images were then    *)
(* overwritten: the lost link is not reported, and hurts no other LUN.     *)
BootsIntact(t) == \E c \in Copies : Boots(t, c) /\ <<t, c>> \notin torn

Failsafe == \A t \in Targets : BootsIntact(t)

FailsafeTables == \A t \in TableTargets : t[1] \notin exposed => BootsIntact(t)

(* A success return of a stage means of every LUN of the call's list that  *)
(* the copies the updater overwrites next are not the ones the LUN boots   *)
(* from, even if the LUN only reported that an earlier call had prepared   *)
(* it.  It says nothing of a LUN whose links were lost: see LunLists.      *)
SafeToWrite ==
    grant # "none" => \A t \in TableTargets : t[1] \in lunList => ~Boots(t, grant)

(* A LUN boots all its targets from the same chain: the entries switch     *)
(* together, so that an old abl is never combined with a new tz.           *)
NoMixedChain ==
    \A l \in Luns : \E c \in Copies : \A t \in LunTargets(l) : Boots(t, c)

(* No write of prepare_partitions goes to the entries array the device     *)
(* boots from, or to the array CRC that vouches for it.                    *)
NeverRewritesBootingTable ==
    [][\A l \in Luns, which \in {"prim", "sec"} :
          pc # "idle" /\ BootsFrom(media[l], which) =>
             /\ media'[l][which].arr = media[l][which].arr
             /\ media'[l][which].crc = media[l][which].crc]_vars

(* prepare_boot_update never says "ready" while a table of a LUN on its    *)
(* list has a damaged header, and never writes to that LUN until it is     *)
(* repaired.                                                               *)
DamagedLunUntouched ==
    /\ grant # "none" => \A l \in lunList : disk[l].prim.st # "BAD_CRC" /\ disk[l].sec.st # "BAD_CRC"
    /\ pc \notin {"idle", "loop", "check", "exit"} =>
          disk[cur].prim.st # "BAD_CRC" /\ disk[cur].sec.st # "BAD_CRC"

(* "No backup partitions - do not corrupt GPT": a LUN whose table has no   *)
(* pair to swap keeps its two tables as shipped through every stage, also  *)
(* those that fail on it.                                                  *)
NoBackupUntouched ==
    \A l \in Luns : ~BackupFound(FactoryRows[l]) => disk[l] = FactoryGpt(l)

(* When a stage is reported as ready, the tables of the LUNs on its list   *)
(* have reached the medium, also those an earlier call wrote and did not   *)
(* live to sync.                                                           *)
GrantIsDurable == grant # "none" => \A l \in lunList : media[l] = disk[l]

(* "Stage already set - ready for update" (the comment on the early exit): *)
(* a main stage that is ready boots xbl from the backup LUN.               *)
ReadyBootsBackupXbl == UsesXbl /\ grant = "main" => bootLun = "B"

(* "corrupt the primary GPT so that the backup(which now points to the     *)
(* backup boot partitions is used)": a device whose primary table is       *)
(* corrupted has a secondary one that boots every backup copy.             *)
CorruptPrimaryBootsBackup ==
    \A l \in UpdateLuns :
        media[l].prim.st = "BAD_SIGNATURE" => \A t \in LunTargets(l) : Boots(t, "bak")

(* prepare_boot_update implements the failsafe update.                     *)
BootedCopy(t) == CHOOSE c \in Copies : Boots(t, c)

Abstract == INSTANCE FailsafeUpdate WITH booted <- [t \in Targets |-> BootedCopy(t)]

ImplementsFailsafeUpdate == Abstract!Spec
=============================================================================
