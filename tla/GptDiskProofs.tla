--------------------------- MODULE GptDiskProofs ---------------------------
(***************************************************************************)
(* Theorems about GptDisk, for any handles, any contents of an entries     *)
(* array and any faults.                                                   *)
(***************************************************************************)
EXTENDS GptDisk, TLAPS

(* A handle that was not touched since its last gpt_disk_update_crc has    *)
(* the CRCs of its array.                                                  *)
HandleInv == \A h \in Handles :
    Usable(h) /\ h \notin dirty => handle[h].hdr.crcOk /\ handle[h].hdr.arrCrc = handle[h].arr

(* A commit in progress is that of an initialized handle, and its header,  *)
(* then its array if its write was not short, are in the page cache.       *)
BusyInv ==
    busy # Idle =>
        /\ committed = NULL
        /\ Usable(busy.h)
        /\ disk.prim.hdr = handle[busy.h].hdr
        /\ busy.pc = "sync" /\ busy.whole => disk.prim.arr = handle[busy.h].arr

(* After one that returned 0, nothing is left to be written back.          *)
DurableInv == CommittedIsDurable /\ (committed # NULL => disk.prim = media.prim)

(* A commit does not touch the backup table.                               *)
BackupInv == Valid(disk.sec) /\ Valid(media.sec)

DiskInv == TypeOK /\ HandleInv /\ BusyInv /\ DurableInv /\ BackupInv

-----------------------------------------------------------------------------
LEMMA TableTyped ==
    ASSUME NEW which \in {"prim", "sec"}, NEW signed \in BOOLEAN, NEW rows \in Rows
    PROVE  Table(which, signed, rows) \in TableType
BY DEF Table, TableType, Headers, Contents

LEMMA ZeroedTyped == Zeroed \in HandleType
BY DEF Zeroed, HandleType

(* Whatever reads have failed, the handle is not initialized.              *)
LEMMA PartlyTyped ==
    ASSUME TypeOK
    PROVE  \A partly \in PartlyFilled : partly \in HandleType /\ ~partly.init
<1> DEFINE withHdr == [Zeroed EXCEPT !.hdr = disk.prim.hdr]
           withBak == [withHdr EXCEPT !.hdrBak = disk.prim.hdr]
           withArr == [withBak EXCEPT !.arr = disk.prim.arr]
<1>1. disk.prim.hdr \in Headers /\ disk.prim.arr \in Contents
    BY DEF TypeOK, TableType
<1>2. withHdr \in HandleType /\ ~withHdr.init
    BY <1>1 DEF Zeroed, HandleType
<1>3. withBak \in HandleType /\ ~withBak.init
    BY <1>1, <1>2 DEF HandleType
<1>4. withArr \in HandleType /\ ~withArr.init
    BY <1>1, <1>3 DEF HandleType
<1>5. PartlyFilled = {Zeroed, withHdr, withBak, withArr}
    BY DEF PartlyFilled
<1>6. Zeroed \in HandleType /\ ~Zeroed.init
    BY ZeroedTyped DEF Zeroed
<1> HIDE DEF withHdr, withBak, withArr
<1> QED BY <1>2, <1>3, <1>4, <1>5, <1>6

(* UpdateCrc makes the header that of the array.                           *)
LEMMA CrcTyped ==
    ASSUME TypeOK, NEW h \in Handles, UpdateCrc(h)
    PROVE  /\ handle'[h] \in HandleType /\ handle'[h].init
           /\ handle'[h].hdr \in Headers /\ handle'[h].hdrBak \in Headers
           /\ handle'[h].arr \in Contents /\ handle'[h].arrBak \in Contents
           /\ handle'[h].hdr.crcOk /\ handle'[h].hdr.arrCrc = handle'[h].arr
           /\ DOMAIN handle' = Handles
           /\ \A k \in Handles \ {h} : handle'[k] = handle[k]
<1> DEFINE hdr == [handle[h].hdr EXCEPT !.arrCrc = handle[h].arr, !.crcOk = TRUE]
           bak == [handle[h].hdrBak EXCEPT !.arrCrc = handle[h].arrBak, !.crcOk = TRUE]
<1>1. /\ handle[h] \in HandleType /\ handle[h].init
      /\ handle[h].hdr \in Headers /\ handle[h].hdrBak \in Headers
      /\ handle[h].arr \in Contents /\ handle[h].arrBak \in Contents
    BY DEF UpdateCrc, TypeOK, Usable
<1>2. /\ hdr \in Headers /\ hdr.crcOk /\ hdr.arrCrc = handle[h].arr
      /\ bak \in Headers
    BY <1>1 DEF Headers, Contents
<1>3. /\ handle'[h] = [handle[h] EXCEPT !.hdr = hdr, !.hdrBak = bak]
      /\ DOMAIN handle' = Handles
      /\ \A k \in Handles \ {h} : handle'[k] = handle[k]
    BY <1>1 DEF UpdateCrc, TypeOK, HandleType
<1> HIDE DEF hdr, bak
<1> QED BY <1>1, <1>2, <1>3 DEF HandleType

LEMMA EditTyped ==
    ASSUME TypeOK, NEW h \in Handles, NEW field \in {"arr", "arrBak"}, NEW rows \in Rows,
           EditEntry(h, field, rows)
    PROVE  /\ handle'[h] \in HandleType
           /\ handle'[h].hdr \in Headers /\ handle'[h].hdrBak \in Headers
           /\ handle'[h].arr \in Contents /\ handle'[h].arrBak \in Contents
           /\ DOMAIN handle' = Handles
           /\ \A k \in Handles \ {h} : handle'[k] = handle[k]
BY GptDiskAssumption DEF EditEntry, TypeOK, Usable, HandleType, Headers, Contents

LEMMA FillTyped ==
    ASSUME TypeOK, NEW h \in Handles, GetDiskInfo(h)
    PROVE  /\ handle'[h] \in HandleType
           /\ handle'[h].hdr \in Headers /\ handle'[h].hdrBak \in Headers
           /\ handle'[h].arr \in Contents /\ handle'[h].arrBak \in Contents
           /\ DOMAIN handle' = Handles
           /\ \A k \in Handles \ {h} : handle'[k] = handle[k]
BY GptDiskAssumption DEF GetDiskInfo, TypeOK, HandleType, TableType, Contents

LEMMA DiskInit == Init => DiskInv
<1> SUFFICES ASSUME Init PROVE DiskInv
    OBVIOUS
<1>1. disk \in [prim : TableType, sec : TableType]
    <2>1. /\ Table("prim", TRUE, Shipped) \in TableType /\ Table("prim", FALSE, Shipped) \in TableType
          /\ Table("sec", TRUE, Shipped) \in TableType /\ Table("sec", TRUE, Swapped) \in TableType
        BY TableTyped, GptDiskAssumption
    <2>2. PICK p \in TableType, q \in TableType : disk = [prim |-> p, sec |-> q]
        BY <2>1 DEF Init
    <2> QED BY <2>2
<1>2. TypeOK
    BY <1>1 DEF Init, TypeOK, Usable
<1>3. BackupInv
    BY DEF Init, BackupInv, Valid, Table
<1> QED BY <1>2, <1>3 DEF Init, DiskInv, HandleInv, Usable, BusyInv, DurableInv, CommittedIsDurable

(* The steps on one handle, between commits.                               *)
LEMMA HandleKeeps ==
    ASSUME DiskInv, NEW h \in Handles,
           busy = Idle, UNCHANGED <<disk, media, busy, committed>>,
           DOMAIN handle' = Handles, \A k \in Handles \ {h} : handle'[k] = handle[k],
           handle'[h] = NULL \/ handle'[h] \in HandleType,
           Usable(h)' => /\ handle'[h].hdr \in Headers /\ handle'[h].hdrBak \in Headers
                         /\ handle'[h].arr \in Contents /\ handle'[h].arrBak \in Contents,
           dirty' \in SUBSET Handles, dirty \ {h} \subseteq dirty',
           Usable(h)' /\ h \notin dirty' =>
               handle'[h].hdr.crcOk /\ handle'[h].hdr.arrCrc = handle'[h].arr
    PROVE  DiskInv'
<1>1. TypeOK'
    BY DEF DiskInv, TypeOK, Usable
<1>2. HandleInv'
    BY DEF DiskInv, HandleInv, Usable
<1>3. BusyInv' /\ DurableInv' /\ BackupInv'
    BY DEF DiskInv, BusyInv, DurableInv, CommittedIsDurable, BackupInv, Idle
<1> QED BY <1>1, <1>2, <1>3 DEF DiskInv

LEMMA DiskNext == DiskInv /\ [Next]_vars => DiskInv'
<1> SUFFICES ASSUME DiskInv, [Next]_vars PROVE DiskInv'
    OBVIOUS
<1>0. TypeOK /\ HandleInv /\ BusyInv /\ DurableInv /\ BackupInv
    BY DEF DiskInv
<1>1. ASSUME NEW h \in Handles, Alloc(h) \/ Free(h) PROVE DiskInv'
    <2>1. /\ DOMAIN handle' = Handles /\ \A k \in Handles \ {h} : handle'[k] = handle[k]
          /\ handle'[h] \in {NULL, Zeroed} /\ ~Usable(h)'
          /\ dirty' \in SUBSET Handles /\ dirty \ {h} \subseteq dirty'
          /\ busy = Idle /\ UNCHANGED <<disk, media, busy, committed>>
        BY <1>0, <1>1 DEF Alloc, Free, TypeOK, Usable, Zeroed
    <2> QED BY <2>1, HandleKeeps, ZeroedTyped
<1>2. ASSUME NEW h \in Handles, GetDiskInfo(h) PROVE DiskInv'
    <2>1. /\ dirty' \in SUBSET Handles /\ dirty \ {h} \subseteq dirty' /\ h \in dirty'
          /\ busy = Idle /\ UNCHANGED <<disk, media, busy, committed>>
        BY <1>0, <1>2 DEF GetDiskInfo, TypeOK
    <2> QED BY <1>0, <1>2, <2>1, HandleKeeps, FillTyped
<1>3. ASSUME NEW h \in Handles, GetDiskInfoFails(h) PROVE DiskInv'
    BY <1>0, <1>3, HandleKeeps, PartlyTyped DEF GetDiskInfoFails, TypeOK, Usable
<1>4. ASSUME NEW h \in Handles, NEW field \in {"arr", "arrBak"}, NEW rows \in Rows,
             EditEntry(h, field, rows)
      PROVE  DiskInv'
    <2>1. /\ dirty' \in SUBSET Handles /\ dirty \ {h} \subseteq dirty' /\ h \in dirty'
          /\ busy = Idle /\ UNCHANGED <<disk, media, busy, committed>>
        BY <1>0, <1>4 DEF EditEntry, TypeOK
    <2> QED BY <1>0, <1>4, <2>1, HandleKeeps, EditTyped
<1>5. ASSUME NEW h \in Handles, UpdateCrc(h) PROVE DiskInv'
    BY <1>0, <1>5, HandleKeeps, CrcTyped DEF UpdateCrc, TypeOK
<1>6. ASSUME NEW h \in Handles, CommitHeader(h) PROVE DiskInv'
    <2>1. disk' \in [prim : TableType, sec : TableType] /\ disk'.prim.hdr = handle[h].hdr
          /\ disk'.sec = disk.sec
        BY <1>0, <1>6 DEF CommitHeader, Write, TypeOK, TableType, Usable
    <2>2. /\ busy' \in [h : Handles, pc : {"rows", "sync"}, whole : BOOLEAN]
          /\ busy'.h = h /\ busy'.pc = "rows"
        BY <1>6 DEF CommitHeader
    <2>3. TypeOK'
        BY <1>0, <1>6, <2>1, <2>2 DEF CommitHeader, Write, TypeOK, Usable
    <2>4. HandleInv' /\ BusyInv' /\ DurableInv' /\ BackupInv'
        BY <1>0, <1>6, <2>1, <2>2 DEF CommitHeader, Write, HandleInv, BusyInv, DurableInv,
           CommittedIsDurable, BackupInv, Usable
    <2> QED BY <2>3, <2>4 DEF DiskInv
<1>7. CASE CommitRows \/ CommitRowsShort
    <2>1. busy \in [h : Handles, pc : {"rows", "sync"}, whole : BOOLEAN] /\ busy # Idle
        BY <1>0, <1>7 DEF CommitRows, CommitRowsShort, TypeOK, Idle
    <2>2. /\ disk' \in [prim : TableType, sec : TableType]
          /\ disk'.prim.hdr = disk.prim.hdr
          /\ disk'.sec = disk.sec
        BY <1>0, <1>7, <2>1 DEF CommitRows, CommitRowsShort, Write, TypeOK, TableType, Contents, BusyInv
    <2>3. /\ busy' \in [h : Handles, pc : {"rows", "sync"}, whole : BOOLEAN]
          /\ busy'.h = busy.h /\ busy'.pc = "sync"
          /\ busy'.whole => disk'.prim.arr = handle[busy.h].arr
        <3>1. CASE CommitRows
            <4>1. busy' = [busy EXCEPT !.pc = "sync"] /\ disk' = [disk EXCEPT !.prim.arr = handle[busy.h].arr]
                BY <1>0, <3>1 DEF CommitRows, Write, TypeOK, TableType
            <4> QED BY <1>0, <2>1, <4>1 DEF TypeOK, TableType
        <3>2. CASE CommitRowsShort
            <4>1. busy' = [busy EXCEPT !.pc = "sync", !.whole = FALSE]
                BY <3>2 DEF CommitRowsShort
            <4> QED BY <2>1, <4>1
        <3> QED BY <1>7, <3>1, <3>2
    <2>4. TypeOK'
        BY <1>0, <1>7, <2>2, <2>3 DEF CommitRows, CommitRowsShort, Write, TypeOK, Usable
    <2>5. HandleInv' /\ BusyInv' /\ DurableInv' /\ BackupInv'
        BY <1>0, <1>7, <2>1, <2>2, <2>3 DEF CommitRows, CommitRowsShort, Write, HandleInv, BusyInv,
           DurableInv, CommittedIsDurable, BackupInv, Usable
    <2> QED BY <2>4, <2>5 DEF DiskInv
<1>8. CASE CommitEnd
    <2>1. busy \in [h : Handles, pc : {"rows", "sync"}, whole : BOOLEAN] /\ busy # Idle
        BY <1>0, <1>8 DEF CommitEnd, TypeOK, Idle
    <2>2. /\ committed' = Given /\ Given \in GivenType
          /\ Given.hdr = disk.prim.hdr
          /\ Given.whole => Given.arr = disk.prim.arr
          /\ Given.sealed => Given.hdr.crcOk /\ Given.hdr.arrCrc = Given.arr
        BY <1>0, <1>8, <2>1 DEF CommitEnd, Given, GivenType, BusyInv, HandleInv, TypeOK
    <2>3. TypeOK'
        BY <1>0, <1>8, <2>1, <2>2 DEF CommitEnd, TypeOK, Usable, BusyInv
    <2>4. HandleInv' /\ BusyInv' /\ DurableInv' /\ BackupInv'
        BY <1>0, <1>8, <2>1, <2>2 DEF CommitEnd, HandleInv, BusyInv, DurableInv,
           CommittedIsDurable, BackupInv, Usable
    <2> QED BY <2>3, <2>4 DEF DiskInv
<1>9. ASSUME NEW h \in Handles, CommitFails(h) PROVE DiskInv'
    <2>1. disk' \in [prim : TableType, sec : TableType] /\ disk'.sec = disk.sec
        BY <1>0, <1>9 DEF CommitFails, Write, TypeOK, TableType, Contents
    <2>2. TypeOK'
        BY <1>0, <1>9, <2>1 DEF CommitFails, Write, TypeOK, Usable
    <2>3. HandleInv' /\ BusyInv' /\ DurableInv' /\ BackupInv'
        BY <1>0, <1>9, <2>1 DEF CommitFails, Write, HandleInv, BusyInv, DurableInv,
           CommittedIsDurable, BackupInv, Usable
    <2> QED BY <2>2, <2>3 DEF DiskInv
<1>10. CASE Flush
    <2>1. /\ media' \in [prim : TableType, sec : TableType] /\ media'.sec = media.sec
          /\ media.prim = disk.prim => media'.prim = media.prim
        BY <1>0, <1>10 DEF Flush, TypeOK, TableType, Contents
    <2>2. TypeOK'
        BY <1>0, <1>10, <2>1 DEF Flush, TypeOK, Usable
    <2>3. HandleInv' /\ BusyInv' /\ DurableInv' /\ BackupInv'
        BY <1>0, <1>10, <2>1 DEF Flush, HandleInv, BusyInv, DurableInv,
           CommittedIsDurable, BackupInv, Usable
    <2> QED BY <2>2, <2>3 DEF DiskInv
<1>11. CASE Kill \/ PowerLoss
    <2>1. /\ disk' \in [prim : TableType, sec : TableType]
          /\ disk'.sec \in {disk.sec, media.sec}
          /\ committed # NULL => disk'.prim = media.prim
          /\ UNCHANGED media
        BY <1>0, <1>11 DEF Kill, PowerLoss, Write, TypeOK, TableType, Contents, BusyInv, DurableInv, Idle
    <2>2. HandlesLost
        BY <1>11 DEF Kill, PowerLoss
    <2>3. TypeOK'
        BY <1>0, <2>1, <2>2 DEF HandlesLost, TypeOK, Usable
    <2>4. HandleInv' /\ BusyInv' /\ DurableInv' /\ BackupInv'
        BY <1>0, <2>1, <2>2 DEF HandlesLost, HandleInv, BusyInv, DurableInv,
           CommittedIsDurable, BackupInv, Usable
    <2> QED BY <2>3, <2>4 DEF DiskInv
<1>12. CASE UNCHANGED vars
    BY <1>0, <1>12 DEF vars, DiskInv, TypeOK, HandleInv, BusyInv, DurableInv,
       CommittedIsDurable, BackupInv, Usable
<1> QED
    BY <1>1, <1>2, <1>3, <1>4, <1>5, <1>6, <1>7, <1>8, <1>9, <1>10, <1>11, <1>12 DEF Next

LEMMA DiskCorrect == Spec => []DiskInv
BY DiskInit, DiskNext, PTL DEF Spec

(* The types: however many reads of gpt_disk_get_disk_info have failed, an *)
(* initialized handle has no NULL field.                                   *)
THEOREM TypeOKHolds == Spec => []TypeOK
<1>1. DiskInv => TypeOK
    BY DEF DiskInv
<1> QED BY <1>1, DiskCorrect, PTL

(* Wherever a commit is interrupted, a table is left that can be booted.   *)
THEOREM CommitIsFailsafeHolds == Spec => []CommitIsFailsafe
<1>1. DiskInv => CommitIsFailsafe
    BY DEF DiskInv, BackupInv, CommitIsFailsafe
<1> QED BY <1>1, DiskCorrect, PTL

(* What a commit that returned 0 was given stays on the medium until the  *)
(* next commit, its array unless its write was short, and with CRCs that   *)
(* match if no entry was edited after the last gpt_disk_update_crc.        *)
THEOREM CommittedIsDurableHolds == Spec => []CommittedIsDurable
<1>1. DiskInv => CommittedIsDurable
    BY DEF DiskInv, DurableInv
<1> QED BY <1>1, DiskCorrect, PTL
=============================================================================
