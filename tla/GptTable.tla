------------------------------ MODULE GptTable ------------------------------
(***************************************************************************)
(* The partition entries array of a GUID partition table, and the one      *)
(* operation gpt-utils performs on it: exchanging the entries of a boot    *)
(* critical partition with those of its backup twin ("abl" and "ablbak").  *)
(*                                                                         *)
(* An entry is 128 bytes in the code: type GUID, unique GUID, extent and a *)
(* UTF-16 name.  The code only ever moves whole entries and only looks at  *)
(* the name, so an entry is the partition it belongs to and the copy of it *)
(* that its extent designates.                                             *)
(***************************************************************************)
EXTENDS Integers, Sequences

CONSTANTS
    Names,         \* the names of partitions
    SwapNames,     \* the names of PTN_SWAP_LIST (gpt-utils.h)
    XblPrefixed,   \* those of them that start with "xbl"
    IsUfs          \* gpt_utils_is_ufs_device()

ASSUME TableAssumption ==
    /\ SwapNames \subseteq Names
    /\ XblPrefixed \subseteq SwapNames
    /\ IsUfs \in BOOLEAN

Copies == {"main", "bak"}

Entries == [ptn : Names, copy : Copies]

(* strncmp(ptn_swap_list[i], PTN_XBL, strlen(PTN_XBL)) compares a prefix:  *)
(* on UFS every name that starts with "xbl" is left out, not only "xbl".   *)
Skipped(p) == IsUfs /\ p \in XblPrefixed

(***************************************************************************)
(* gpt_pentry_seek: i is the first entry at or after position from that    *)
(* carries the name p or the name of its backup twin.  NULL is "no i".     *)
(***************************************************************************)
IsSeek(rows, p, from, i) ==
    /\ i \in from .. Len(rows)
    /\ rows[i].ptn = p
    /\ \A k \in from .. (i - 1) : rows[k].ptn # p

(* The two entries gpt_boot_chain_swap exchanges for the name p.           *)
IsPair(rows, p, i, j) == IsSeek(rows, p, 1, i) /\ IsSeek(rows, p, i + 1, j)

Backed(rows, p) == \E i, j \in DOMAIN rows : IsPair(rows, p, i, j)

(* The names for which gpt_boot_chain_swap does exchange two entries.      *)
SwappedNames(rows) == {p \in SwapNames : ~Skipped(p) /\ Backed(rows, p)}

(***************************************************************************)
(* gpt_boot_chain_swap.  The pairs of distinct names are disjoint, so the  *)
(* loop over PTN_SWAP_LIST is one simultaneous exchange (SwapIsLoop of     *)
(* GptSwap).  The result of the C function is 1 ("no backup partitions     *)
(* found") exactly when SwappedNames is empty.                             *)
(***************************************************************************)
Exchanges(rows, i, j) ==
    \E p \in SwappedNames(rows) : IsPair(rows, p, i, j) \/ IsPair(rows, p, j, i)

(* Mutant of BootChainSwap: the loop stops after the first name it swaps.  *)
SwapFirstNameOnly(rows) ==
    LET p == CHOOSE q \in SwapNames : q \in SwappedNames(rows) \/ SwappedNames(rows) = {}
        Pairs(i, j) == /\ p \in SwappedNames(rows)
                       /\ IsPair(rows, p, i, j) \/ IsPair(rows, p, j, i)
    IN  [i \in DOMAIN rows |->
            IF \E j \in DOMAIN rows : Pairs(i, j)
            THEN rows[CHOOSE j \in DOMAIN rows : Pairs(i, j)]
            ELSE rows[i]]

BootChainSwap(rows) ==
    [i \in DOMAIN rows |->
        IF \E j \in DOMAIN rows : Exchanges(rows, i, j)
        THEN rows[CHOOSE j \in DOMAIN rows : Exchanges(rows, i, j)]
        ELSE rows[i]]

BackupFound(rows) == SwappedNames(rows) # {}

(***************************************************************************)
(* What the tables are for.  The boot loader looks a partition up by its   *)
(* well-known type GUID, which the two copies share, and takes the first   *)
(* entry: this is why exchanging two entries changes the chain that boots. *)
(***************************************************************************)
Loads(rows, p, c) ==
    \E i \in DOMAIN rows : IsSeek(rows, p, 1, i) /\ rows[i].copy = c

(* A table as the device is shipped: a backed partition has its two copies *)
(* in the table, the main one first.                                       *)
IsFactoryTable(rows) ==
    /\ rows \in Seq(Entries)
    /\ \A p \in SwapNames : \A i, j \in DOMAIN rows :
          IsPair(rows, p, i, j) => rows[i].copy = "main" /\ rows[j].copy = "bak"
=============================================================================
