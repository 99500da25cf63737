------------------------------ MODULE GptSwap ------------------------------
(***************************************************************************)
(* gpt_boot_chain_swap as it runs: one action per turn of the for loop     *)
(* over PTN_SWAP_LIST, on the entries array in place.  The array it leaves *)
(* is the input of the next call, as that of UPDATE_MAIN is of             *)
(* UPDATE_FINALIZE.  GptTable, which the other modules use, has the whole  *)
(* loop as one simultaneous exchange.                                      *)
(***************************************************************************)
EXTENDS GptTable

CONSTANTS
    SwapList,      \* PTN_SWAP_LIST in order
    MaxRows        \* bound on the number of entries

(* The list names each partition once.                                     *)
ASSUME SwapListAssumption ==
    /\ SwapList \in Seq(Names)
    /\ SwapNames = {SwapList[k] : k \in DOMAIN SwapList}
    /\ \A k, m \in DOMAIN SwapList : SwapList[k] = SwapList[m] => k = m
    /\ MaxRows \in Nat

VARIABLES
    rows,      \* the entries array
    given,     \* what it was when the function was called
    at,        \* i of the loop, from 1
    found      \* ~backup_not_found

swapVars == <<rows, given, at, found>>

Init ==
    /\ \E n \in 0 .. MaxRows : rows \in [1 .. n -> Entries]
    /\ given = rows /\ at = 1 /\ found = FALSE

Returned == at > Len(SwapList)

Call ==
    /\ Returned
    /\ given' = rows /\ at' = 1 /\ found' = FALSE
    /\ UNCHANGED rows

(* The three "continue"s: a name left to the boot LUN, no entry, no twin.  *)
PassOver(p) ==
    /\ Skipped(p) \/ ~Backed(rows, p)
    /\ UNCHANGED <<rows, found>>

(* Mutants of Exchange: the last memcpy is missing; the loop does not      *)
(* leave out xbl; the result stays "no backup partitions found"; the entry *)
(* after the first one is taken for its twin.                              *)
ExchangeOneWay(p) ==
    /\ ~Skipped(p)
    /\ \E i, j \in DOMAIN rows :
          IsPair(rows, p, i, j) /\ rows' = [rows EXCEPT ![i] = rows[j]]
    /\ found' = TRUE

ExchangeEveryName(p) ==
    /\ \E i, j \in DOMAIN rows :
          IsPair(rows, p, i, j) /\ rows' = [rows EXCEPT ![i] = rows[j], ![j] = rows[i]]
    /\ found' = TRUE

ExchangeReportsNone(p) ==
    /\ ~Skipped(p)
    /\ \E i, j \in DOMAIN rows :
          IsPair(rows, p, i, j) /\ rows' = [rows EXCEPT ![i] = rows[j], ![j] = rows[i]]
    /\ UNCHANGED found

ExchangeNeighbours(p) ==
    /\ ~Skipped(p)
    /\ \E i, j \in DOMAIN rows :
          IsPair(rows, p, i, j) /\ rows' = [rows EXCEPT ![i] = rows[i + 1], ![i + 1] = rows[i]]
    /\ found' = TRUE

Exchange(p) ==
    /\ ~Skipped(p)
    /\ \E i, j \in DOMAIN rows :
          IsPair(rows, p, i, j) /\ rows' = [rows EXCEPT ![i] = rows[j], ![j] = rows[i]]
    /\ found' = TRUE

Turn ==
    /\ ~Returned
    /\ PassOver(SwapList[at]) \/ Exchange(SwapList[at])
    /\ at' = at + 1
    /\ UNCHANGED given

Next == Call \/ Turn

Spec == Init /\ [][Next]_swapVars

(***************************************************************************)
(* Properties                                                              *)
(***************************************************************************)

(* What the loop leaves is the simultaneous exchange of BootChainSwap, and *)
(* it reports a backup exactly if there is one: an exchange for one name   *)
(* disturbs neither the seeks for a later one nor what an earlier one did. *)
SwapIsLoop ==
    Returned => rows = BootChainSwap(given) /\ (found <=> BackupFound(given))

(* Preparing the secondary table again (a stage run again after a crash)   *)
(* and undoing it in UPDATE_FINALIZE both rely on a second call giving the *)
(* first array back, with the same partitions found.                       *)
SwapTwiceIsIdentity ==
    Returned => /\ BootChainSwap(rows) = given
                /\ SwappedNames(rows) = SwappedNames(given)

(* A call flips the copy that boots of every backed partition whose twins  *)
(* differ, and of no other partition.                                      *)
SwapFlipsExactlyBacked ==
    Returned =>
        \A p \in Names, c \in Copies :
            Loads(rows, p, c) <=>
                IF p \in SwappedNames(given)
                THEN \E i, j \in DOMAIN given : IsPair(given, p, i, j) /\ given[j].copy = c
                ELSE Loads(given, p, c)

(* No entry is lost or duplicated: after each turn, with its three memcpy  *)
(* calls, the array is a rearrangement of the one passed in.               *)
NoEntryLost ==
    \E f \in [DOMAIN rows -> DOMAIN given] :
        /\ \A i, j \in DOMAIN rows : f[i] = f[j] => i = j
        /\ DOMAIN rows = DOMAIN given
        /\ \A i \in DOMAIN rows : rows[i] = given[f[i]]

(***************************************************************************)
(* The inductive invariant                                                 *)
(***************************************************************************)

Done == {SwapList[k] : k \in 1 .. at - 1}

(* The two slots that a turn for one of the names ps exchanges.            *)
ExchangedFor(ps, i, j) ==
    \E p \in ps \cap SwappedNames(given) : IsPair(given, p, i, j) \/ IsPair(given, p, j, i)

LoopInv ==
    /\ given \in Seq(Entries)
    /\ at \in 1 .. Len(SwapList) + 1
    /\ rows \in [DOMAIN given -> Entries]
    /\ \A i, j \in DOMAIN given : ExchangedFor(Done, i, j) => rows[i] = given[j]
    /\ \A i \in DOMAIN given :
          (\A j \in DOMAIN given : ~ExchangedFor(Done, i, j)) => rows[i] = given[i]
    /\ found <=> Done \cap SwappedNames(given) # {}
=============================================================================
