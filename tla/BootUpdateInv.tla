--------------------------- MODULE BootUpdateInv ---------------------------
(***************************************************************************)
(* The inductive invariant behind the safety properties of BootUpdate, and *)
(* the conditions under which they hold.                                   *)
(***************************************************************************)
EXTENDS BootUpdate

(* The prefix comparison with "xbl" leaves no backed partition but xbl     *)
(* itself out.                                                             *)
OnlyXblSkipped ==
    \A l \in Luns, p \in SwapNames :
        Skipped(p) /\ Backed(FactoryRows[l], p) => p = Xbl

(* Writes reach the medium in the order they are made, and the faults are  *)
(* a power loss, a kill or an error return between any two of them or in   *)
(* the middle of an array, a table that goes bad while no update is on its *)
(* way, and a link that is lost.                                           *)
OrderedWrites ==
    /\ ~WriteBack
    /\ Faults \subseteq {"powerLoss", "kill", "ioError", "decay", "lostLink"}
    /\ OnlyXblSkipped

(* Every call finds all the LUNs that hold a backup.                       *)
LinksResolve == IsUfs => "lostLink" \notin Faults

(* What is still in the page cache is not lost.                            *)
PageCacheSurvives == WriteBack => "powerLoss" \notin Faults

-----------------------------------------------------------------------------
(* What makes TypeOK inductive, for every fault: no call writes to the     *)
(* primary array or to its CRC, so that the secondary array it derives     *)
(* from them is the shipped one or the swapped one.                        *)
PrimaryArrayKept(gpt, l) ==
    gpt.prim.crc = FactoryRows[l] /\ gpt.prim.arr \in {FactoryRows[l], Torn}

TypeInv ==
    /\ TypeOK
    /\ \A l \in Luns : PrimaryArrayKept(disk[l], l) /\ PrimaryArrayKept(media[l], l)
    /\ pc \notin {"idle", "loop"} => cur \in Luns
    /\ pc = "chainRows" => disk[cur].prim.arr = FactoryRows[cur]

-----------------------------------------------------------------------------
(* The images of a LUN, unless they were given up to a lost link.          *)
Intact(l, c) == l \in exposed \/ \A t \in LunTargets(l) : <<t, c>> \notin torn

SwappedRows == [l \in Luns |-> BootChainSwap(FactoryRows[l])]

PrimaryKept(l) == disk[l].prim.st # "BAD_CRC" /\ disk[l].prim.arr = FactoryRows[l]

(* A primary table that went bad is never written to again: the secondary  *)
(* one, good at that time, is in charge, and no image is given up.         *)
PrimaryLost(l) ==
    /\ disk[l].prim.st # "BAD_SIGNATURE"
    /\ Valid(disk[l].sec)
    /\ Intact(l, "main") /\ Intact(l, "bak")

(* A corrupted primary header leaves the secondary table in charge, so     *)
(* this one must be good and select the backup copies.                     *)
SecondaryTakesOver(l) ==
    disk[l].prim.st = "BAD_SIGNATURE" =>
        /\ disk[l].sec.st = "OK"
        /\ disk[l].sec.crc = SwappedRows[l]
        /\ disk[l].sec.arr = SwappedRows[l]

(* Images are incomplete only while the table that selects them is out of  *)
(* use: this is what lets a later stage decide from the headers alone.     *)
TornImagesUnused(l) ==
    /\ disk[l].prim.st = "OK" => Intact(l, "main")
    /\ disk[l].sec.st = "OK" => Intact(l, "bak")

LunInv(l) ==
    /\ disk[l].sec.crc \in {FactoryRows[l], SwappedRows[l]}
    /\ IF PrimaryKept(l) THEN SecondaryTakesOver(l) /\ TornImagesUnused(l) ELSE PrimaryLost(l)

(* What a call knows about the images when it makes a table usable.        *)
CallInv ==
    /\ pc # "idle" => stage \in Stages /\ grant = "none"
    /\ pc # "idle" /\ stage = UPDATE_BACKUP => \A l \in Luns : Intact(l, "main")
    /\ pc # "idle" /\ stage = UPDATE_FINALIZE => \A l \in Luns : Intact(l, "bak")
    /\ pc \notin {"idle", "loop"} => cur \in todo

(* What each label of prepare_partitions knows about the current LUN.      *)
Headers(p, s) == disk[cur].prim.st = p /\ disk[cur].sec.st = s

LabelInv ==
    /\ pc = "xbl" => \/ stage = UPDATE_MAIN /\ Headers("OK", "OK")
                     \/ stage = UPDATE_BACKUP /\ Headers("BAD_SIGNATURE", "OK")
    /\ pc \in {"chainHeader", "chainRows"} =>
          \/ stage = UPDATE_MAIN /\ Headers("OK", "OK")
          \/ stage = UPDATE_FINALIZE /\ Headers("OK", "BAD_SIGNATURE")
    /\ pc = "chainRows" => disk[cur].sec.crc = NewRows(cur)
    /\ pc = "corruptPrim" =>
          /\ stage = UPDATE_MAIN /\ Headers("OK", "OK") /\ PrimaryKept(cur)
          /\ disk[cur].sec.crc = NewRows(cur) /\ disk[cur].sec.arr = NewRows(cur)
    /\ pc = "fixPrim" => stage = UPDATE_BACKUP /\ Headers("BAD_SIGNATURE", "OK")
    /\ pc = "corruptSec" => stage = UPDATE_BACKUP /\ Headers("OK", "OK") /\ PrimaryKept(cur)
    /\ pc = "fixSec" => stage = UPDATE_FINALIZE /\ Headers("OK", "BAD_SIGNATURE")

(* What a LUN that was visited without an error is ready for.  A call, and *)
(* the grant it gives, know this of the LUNs on the list, and of no other. *)
Prepared(s, l) ==
    /\ s = UPDATE_MAIN /\ BackupFound(FactoryRows[l]) => disk[l].prim.st = "BAD_SIGNATURE"
    /\ s = UPDATE_BACKUP => disk[l].sec.st = "BAD_SIGNATURE"

ProgressInv ==
    /\ pc = "exit" /\ r = 0 => Prepared(stage, cur)
    /\ pc # "idle" /\ ~isError => \A l \in lunList \ todo : Prepared(stage, l)
    /\ grant = "main" => \A l \in lunList : Prepared(UPDATE_MAIN, l)
    /\ grant = "bak" => \A l \in lunList : Prepared(UPDATE_BACKUP, l)

(* The headers tell a caller after a restart what the images are good for. *)
IInv ==
    /\ media = disk
    /\ \A l \in Luns : LunInv(l)
    /\ CallInv
    /\ LabelInv
    /\ ProgressInv
=============================================================================
