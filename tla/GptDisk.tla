------------------------------ MODULE GptDisk ------------------------------
(***************************************************************************)
(* The gpt_disk handles of gpt-utils.cpp: a client reads the tables of a   *)
(* disk into a handle, edits partition entries there, recomputes the CRCs  *)
(* and commits the handle.  Calls are made one after the other by one      *)
(* thread, on several handles; a power loss, a kill or an I/O error can    *)
(* fall between the writes of a commit.                                    *)
(***************************************************************************)
CONSTANTS
    Handles,     \* the struct gpt_disk a client may hold
    Rows,        \* the contents an entries array can be given
    Shipped,     \* the one both tables start with
    Swapped,     \* the one of a secondary table after UPDATE_MAIN
    Torn,        \* an array that is not completely written
    NULL,        \* no pointer, no handle, no commit
    Faults       \* the faults of a run

(* The fields of a header that the code reads or writes: whose header it   *)
(* is (its own LBA), its signature, its CRC and the CRC of its array.      *)
Headers == [of : {"prim", "sec"}, signed : BOOLEAN, crcOk : BOOLEAN,
            arrCrc : Rows \cup {Torn}]

ASSUME GptDiskAssumption ==
    /\ {Shipped, Swapped} \subseteq Rows
    /\ Torn \notin Rows
    /\ NULL \notin Rows \cup Handles \cup Headers \cup {Torn}
    /\ Faults \subseteq {"powerLoss", "kill", "ioError"}

VARIABLES
    disk,       \* the two tables as read(2) returns them
    media,      \* the two tables as they are after a power loss
    handle,     \* handle[h]: the struct gpt_disk, NULL before gpt_disk_alloc
    busy,       \* the call of gpt_disk_commit in progress: its handle, its label,
                \* and whether its array was written whole
    dirty,      \* the handles filled or edited since their last gpt_disk_update_crc
    committed   \* what the last commit that returned 0 was given, until the next one

vars == <<disk, media, handle, busy, dirty, committed>>

Table(which, signed, rows) ==
    [hdr |-> [of |-> which, signed |-> signed, crcOk |-> TRUE, arrCrc |-> rows], arr |-> rows]

Valid(table) == table.hdr.signed /\ table.hdr.crcOk /\ table.hdr.arrCrc = table.arr

Idle == [h |-> NULL, pc |-> "idle", whole |-> TRUE]

Zeroed == [init |-> FALSE, hdr |-> NULL, hdrBak |-> NULL, arr |-> NULL, arrBak |-> NULL]

(* The disk before an update, and the one UPDATE_MAIN leaves.              *)
Init ==
    /\ disk \in {[prim |-> Table("prim", TRUE, Shipped), sec |-> Table("sec", TRUE, Shipped)],
                 [prim |-> Table("prim", FALSE, Shipped), sec |-> Table("sec", TRUE, Swapped)]}
    /\ media = disk
    /\ handle = [h \in Handles |-> NULL]
    /\ busy = Idle
    /\ dirty = {}
    /\ committed = NULL

(* A write changes the page cache; the medium follows with Flush or fsync. *)
Write(table) == disk' = [disk EXCEPT !.prim = table] /\ UNCHANGED media

-----------------------------------------------------------------------------
Alloc(h) ==
    /\ busy = Idle /\ handle[h] = NULL
    /\ handle' = [handle EXCEPT ![h] = Zeroed]
    /\ UNCHANGED <<disk, media, busy, dirty, committed>>

Free(h) ==
    /\ busy = Idle /\ handle[h] # NULL
    /\ handle' = [handle EXCEPT ![h] = NULL]
    /\ dirty' = dirty \ {h}
    /\ UNCHANGED <<disk, media, busy, committed>>

(* gpt_disk_get_disk_info checks neither the signature nor a CRC.  The     *)
(* backup header is read with PRIMARY_GPT, and the backup array from where *)
(* that header says it is: both are the primary ones.  A client fills a    *)
(* handle once (filling it again would leak what it holds).                *)
GetDiskInfo(h) ==
    /\ busy = Idle /\ handle[h] = Zeroed
    /\ handle' = [handle EXCEPT ![h] =
          [init |-> TRUE, hdr |-> disk.prim.hdr, hdrBak |-> disk.prim.hdr,
           arr |-> disk.prim.arr, arrBak |-> disk.prim.arr]]
    /\ dirty' = dirty \cup {h}
    /\ UNCHANGED <<disk, media, busy, committed>>

(* What it leaves when one of its four reads fails, or the open before the *)
(* last two.                                                               *)
PartlyFilled ==
    LET withHdr == [Zeroed EXCEPT !.hdr = disk.prim.hdr]
        withBak == [withHdr EXCEPT !.hdrBak = disk.prim.hdr]
    IN  {Zeroed, withHdr, withBak, [withBak EXCEPT !.arr = disk.prim.arr]}

(* Mutant of GetDiskInfoFails: is_initialized is set before the reads.     *)
GetDiskInfoFailsInitialized(h) ==
    /\ "ioError" \in Faults
    /\ busy = Idle /\ handle[h] = Zeroed
    /\ \E partly \in PartlyFilled : handle' = [handle EXCEPT ![h] = [partly EXCEPT !.init = TRUE]]
    /\ UNCHANGED <<disk, media, busy, dirty, committed>>

(* The fields that were read stay set, is_initialized does not become set. *)
GetDiskInfoFails(h) ==
    /\ "ioError" \in Faults
    /\ busy = Idle /\ handle[h] = Zeroed
    /\ \E partly \in PartlyFilled : handle' = [handle EXCEPT ![h] = partly]
    /\ UNCHANGED <<disk, media, busy, dirty, committed>>

(* is_initialized = GPT_DISK_INIT_MAGIC, which every call below asks for.  *)
Usable(h) == handle[h] # NULL /\ handle[h].init

(* The client edits an entry through the pointer gpt_disk_get_pentry gave  *)
(* it, of the primary or of the backup array.                              *)
EditEntry(h, field, rows) ==
    /\ busy = Idle /\ Usable(h)
    /\ handle' = [handle EXCEPT ![h][field] = rows]
    /\ dirty' = dirty \cup {h}
    /\ UNCHANGED <<disk, media, busy, committed>>

(* Mutant of UpdateCrc: the CRC of the header is computed before the CRC   *)
(* of the array is stored in it.                                           *)
UpdateCrcHeaderFirst(h) ==
    /\ busy = Idle /\ Usable(h)
    /\ handle' = [handle EXCEPT
          ![h].hdr = [@ EXCEPT !.arrCrc = handle[h].arr,
                               !.crcOk = (@ /\ handle[h].hdr.arrCrc = handle[h].arr)],
          ![h].hdrBak = [@ EXCEPT !.arrCrc = handle[h].arrBak]]
    /\ dirty' = dirty \ {h}
    /\ UNCHANGED <<disk, media, busy, committed>>

UpdateCrc(h) ==
    /\ busy = Idle /\ Usable(h)
    /\ handle' = [handle EXCEPT
          ![h].hdr = [@ EXCEPT !.arrCrc = handle[h].arr, !.crcOk = TRUE],
          ![h].hdrBak = [@ EXCEPT !.arrCrc = handle[h].arrBak, !.crcOk = TRUE]]
    /\ dirty' = dirty \ {h}
    /\ UNCHANGED <<disk, media, busy, committed>>

(***************************************************************************)
(* gpt_disk_commit writes the primary header, then the primary array.  It  *)
(* asks no more than that the handle is initialized: not that the client   *)
(* has called gpt_disk_update_crc after an edit, as the comment there asks *)
(* it to, nor that the table the handle was filled from had valid CRCs.    *)
(***************************************************************************)
CommitHeader(h) ==
    /\ busy = Idle /\ Usable(h)
    /\ Write([disk.prim EXCEPT !.hdr = handle[h].hdr])
    /\ busy' = [h |-> h, pc |-> "rows", whole |-> TRUE]
    /\ committed' = NULL
    /\ UNCHANGED <<handle, dirty>>

(* Mutant of CommitRows: the array goes to where the backup table is.      *)
CommitRowsToBackup ==
    /\ busy.pc = "rows"
    /\ disk' = [disk EXCEPT !.sec.arr = handle[busy.h].arr]
    /\ busy' = [busy EXCEPT !.pc = "sync"]
    /\ UNCHANGED <<media, handle, dirty, committed>>

CommitRows ==
    /\ busy.pc = "rows"
    /\ Write([disk.prim EXCEPT !.arr = handle[busy.h].arr])
    /\ busy' = [busy EXCEPT !.pc = "sync"]
    /\ UNCHANGED <<handle, dirty, committed>>

(* write(2) writes a part of the array: blk_rw returns 0 all the same.     *)
CommitRowsShort ==
    /\ "ioError" \in Faults
    /\ busy.pc = "rows"
    /\ Write([disk.prim EXCEPT !.arr = Torn])
    /\ busy' = [busy EXCEPT !.pc = "sync", !.whole = FALSE]
    /\ UNCHANGED <<handle, dirty, committed>>

(* What the caller of a commit that returned 0 may take to be on the disk. *)
Given == [hdr |-> handle[busy.h].hdr, arr |-> handle[busy.h].arr,
          sealed |-> busy.h \notin dirty, whole |-> busy.whole]

(* Mutant of CommitEnd: no fsync.                                          *)
CommitEndNoSync ==
    /\ busy.pc = "sync"
    /\ committed' = Given
    /\ busy' = Idle
    /\ UNCHANGED <<disk, media, handle, dirty>>

(* fsync, close, return 0                                                  *)
CommitEnd ==
    /\ busy.pc = "sync"
    /\ media' = disk
    /\ committed' = Given
    /\ busy' = Idle
    /\ UNCHANGED <<disk, handle, dirty>>

(* An open or a write fails: -1, no fsync.                                 *)
CommitFails(h) ==
    /\ "ioError" \in Faults
    /\ \/ busy = Idle /\ Usable(h) /\ UNCHANGED <<disk, media>>
       \/ /\ busy.h = h /\ busy.pc = "rows"
          /\ UNCHANGED <<disk, media>> \/ Write([disk.prim EXCEPT !.arr = Torn])
    /\ busy' = Idle
    /\ committed' = NULL
    /\ UNCHANGED <<handle, dirty>>

-----------------------------------------------------------------------------
(* The kernel writes a dirty header, a dirty array or a part of it back.   *)
Flush ==
    /\ \E table \in {[media.prim EXCEPT !.hdr = disk.prim.hdr],
                     [media.prim EXCEPT !.arr = disk.prim.arr],
                     [media.prim EXCEPT !.arr = IF @ = disk.prim.arr THEN @ ELSE Torn]} :
          media' = [media EXCEPT !.prim = table]
    /\ UNCHANGED <<disk, handle, busy, dirty, committed>>

HandlesLost ==
    /\ handle' = [h \in Handles |-> NULL]
    /\ busy' = Idle
    /\ dirty' = {}
    /\ UNCHANGED committed

Kill ==
    /\ "kill" \in Faults
    /\ \/ UNCHANGED <<disk, media>>
       \/ busy.pc = "rows" /\ Write([disk.prim EXCEPT !.arr = Torn])
    /\ HandlesLost

PowerLoss ==
    /\ "powerLoss" \in Faults
    /\ disk' = media
    /\ UNCHANGED media
    /\ HandlesLost

Next ==
    \/ \E h \in Handles :
          \/ Alloc(h) \/ Free(h) \/ GetDiskInfo(h) \/ GetDiskInfoFails(h)
          \/ \E field \in {"arr", "arrBak"}, rows \in Rows : EditEntry(h, field, rows)
          \/ UpdateCrc(h) \/ CommitHeader(h) \/ CommitFails(h)
    \/ CommitRows \/ CommitRowsShort \/ CommitEnd
    \/ Flush \/ Kill \/ PowerLoss

Spec == Init /\ [][Next]_vars

(***************************************************************************)
(* Properties                                                              *)
(***************************************************************************)

Contents == Rows \cup {Torn}

TableType == [hdr : Headers, arr : Contents]

HandleType == [init : BOOLEAN, hdr : Headers \cup {NULL},
               hdrBak : Headers \cup {NULL}, arr : Contents \cup {NULL},
               arrBak : Contents \cup {NULL}]

GivenType == [hdr : Headers, arr : Contents, sealed : BOOLEAN, whole : BOOLEAN]

(* The types of the variables; a handle that is initialized has no NULL    *)
(* field, whatever its reads did.                                          *)
TypeOK ==
    /\ disk \in [prim : TableType, sec : TableType]
    /\ media \in [prim : TableType, sec : TableType]
    /\ DOMAIN handle = Handles
    /\ \A h \in Handles : handle[h] = NULL \/ handle[h] \in HandleType
    /\ \A h \in Handles : Usable(h) =>
          /\ handle[h].hdr \in Headers /\ handle[h].hdrBak \in Headers
          /\ handle[h].arr \in Contents /\ handle[h].arrBak \in Contents
    /\ busy = Idle \/ busy \in [h : Handles, pc : {"rows", "sync"}, whole : BOOLEAN]
    /\ dirty \subseteq Handles
    /\ committed = NULL \/ committed \in GivenType

(* Wherever a commit is interrupted, one of the two tables can be booted.  *)
CommitIsFailsafe == Valid(media.prim) \/ Valid(media.sec)

(* What a commit that returned 0 was given is on the medium, and survives  *)
(* power losses, other handles and failed reads until the next commit: the *)
(* header in any case, the array unless its write was short, which the     *)
(* caller is not told.  If no entry was edited after the last              *)
(* gpt_disk_update_crc, both CRCs of that table match, also when the       *)
(* handle was filled from a torn table or before another one's commit.     *)
CommittedIsDurable ==
    committed # NULL =>
        /\ media.prim.hdr = committed.hdr
        /\ committed.whole => media.prim.arr = committed.arr
        /\ committed.sealed =>
              media.prim.hdr.crcOk /\ media.prim.hdr.arrCrc = committed.arr

(* "Partition entries array for backup table" (gpt-utils.h): the backup    *)
(* array of a handle that was just filled is that of the backup table.     *)
BackupArrayIsSecondary ==
    [][\A h \in Handles : GetDiskInfo(h) => handle'[h].arrBak = disk.sec.arr]_vars
=============================================================================
