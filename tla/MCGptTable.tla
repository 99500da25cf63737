----------------------------- MODULE MCGptTable -----------------------------
(***************************************************************************)
(* gpt_boot_chain_swap on every small table: a list of three names, of     *)
(* which UFS leaves one out, and a name outside the list.                  *)
(***************************************************************************)
EXTENDS GptSwap

MCSwapList == <<"xbl", "abl", "tz">>
MCNames == {"xbl", "abl", "tz", "boot"}
MCSwapNames == {"xbl", "abl", "tz"}
MCXblPrefixed == {"xbl"}
=============================================================================
