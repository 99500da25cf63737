----------------------------- MODULE MCGptDisk -----------------------------
(* Instances of GptDisk.  The rows an edit leaves are the shipped ones or  *)
(* the exchanged ones: two contents are enough to tell a table from an     *)
(* older or a newer one.  The handles are interchangeable: no definition   *)
(* names one, and the properties checked with two of them are invariants.  *)
EXTENDS GptDisk, TLC

OneHandle == {"h1"}
MCRows == {"shipped", "swapped"}
Interchangeable == Permutations(Handles)
=============================================================================
