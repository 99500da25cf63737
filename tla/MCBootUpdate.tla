---------------------------- MODULE MCBootUpdate ----------------------------
(***************************************************************************)
(* Small devices for model checking BootUpdate.                            *)
(***************************************************************************)
EXTENDS BootUpdate

Entry(p, c) == [ptn |-> p, copy |-> c]

MCNames == {"xbl", "abl", "tz", "xbl_config", "boot"}
MCSwapNames == {"xbl", "abl", "tz", "xbl_config"}
MCXblPrefixed == {"xbl", "xbl_config"}

(* eMMC: one device with everything on it, the twins of xbl included.      *)
EmmcLuns == {"mmcblk0"}
EmmcRows ==
    [l \in EmmcLuns |-> <<Entry("xbl", "main"), Entry("abl", "main"), Entry("xbl", "bak"),
                          Entry("boot", "main"), Entry("abl", "bak")>>]

(* UFS: the boot critical partitions are spread over two LUNs.             *)
UfsLuns == {"sda", "sde"}
UfsRows ==
    [l \in UfsLuns |->
        IF l = "sda" THEN <<Entry("boot", "main"), Entry("abl", "main"), Entry("abl", "bak")>>
        ELSE <<Entry("tz", "main"), Entry("tz", "bak")>>]

(* Or in one, next to the boot LUN.                                        *)
OneLun == {"sda"}
OneLunRows ==
    [l \in OneLun |-> <<Entry("abl", "main"), Entry("tz", "main"), Entry("boot", "main"),
                        Entry("abl", "bak"), Entry("tz", "bak")>>]

(* And a LUN that holds a backup twin only: it is visited, but nothing is  *)
(* swapped.                                                                *)
ThreeLuns == UfsLuns \cup {"sdf"}
ThreeRows == [l \in ThreeLuns |-> IF l = "sdf" THEN <<Entry("tz", "bak")>> ELSE UfsRows[l]]

(* A LUN with a backup of xbl_config next to abl.                          *)
ConfigLuns == {"sda"}
ConfigRows ==
    [l \in ConfigLuns |-> <<Entry("abl", "main"), Entry("abl", "bak"),
                            Entry("xbl_config", "main"), Entry("xbl_config", "bak")>>]
=============================================================================
