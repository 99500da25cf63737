---------------------------- MODULE GptSwapProofs ----------------------------
(***************************************************************************)
(* The loop of gpt_boot_chain_swap computes the simultaneous exchange of   *)
(* GptTable, for every table, list of names and number of entries.         *)
(***************************************************************************)
EXTENDS GptSwap, GptTableProofs

USE DEF Returned

(* The pairs the loop has exchanged are pairs of the simultaneous exchange.*)
LEMMA ExchangedIsExchange ==
    ASSUME NEW ps, NEW i, NEW j, ExchangedFor(ps, i, j)
    PROVE  Exchanges(given, i, j) /\ ExchangedFor(ps, j, i)
  BY DEF ExchangedFor, Exchanges

(* Every turn leaves each slot with an entry of the name it had.           *)
LEMMA TurnsKeepNames ==
    ASSUME LoopInv
    PROVE  /\ rows \in Seq(Entries) /\ Len(rows) = Len(given)
           /\ DOMAIN rows = DOMAIN given
           /\ \A i \in DOMAIN given : rows[i].ptn = given[i].ptn
  <1>1. /\ given \in Seq(Entries) /\ rows \in [1 .. Len(given) -> Entries]
        /\ Len(given) \in Nat /\ DOMAIN given = 1 .. Len(given)
    BY DEF LoopInv
  <1>2. rows \in Seq(Entries) /\ Len(rows) = Len(given)
    BY <1>1, LenProperties, SeqDef
  <1>3. ASSUME NEW i \in DOMAIN given
        PROVE  rows[i].ptn = given[i].ptn
    <2>1. CASE \E j \in DOMAIN given : ExchangedFor(Done, i, j)
      <3>1. PICK j \in DOMAIN given : ExchangedFor(Done, i, j)
        BY <2>1
      <3>2. rows[i] = given[j]
        BY <3>1 DEF LoopInv
      <3> QED BY <3>1, <3>2 DEF ExchangedFor, IsPair, IsSeek
    <2>2. CASE ~\E j \in DOMAIN given : ExchangedFor(Done, i, j)
      BY <2>2 DEF LoopInv
    <2> QED BY <2>1, <2>2
  <1> QED BY <1>1, <1>2, <1>3

LEMMA LoopInit == Init => LoopInv
  <1> SUFFICES ASSUME Init PROVE LoopInv
    OBVIOUS
  <1>1. PICK n \in 0 .. MaxRows : rows \in [1 .. n -> Entries]
    BY DEF Init
  <1>2. given \in Seq(Entries) /\ rows \in [DOMAIN given -> Entries]
    BY <1>1, SwapListAssumption, SeqDef DEF Init
  <1>3. at \in 1 .. Len(SwapList) + 1
    BY SwapListAssumption DEF Init
  <1>4. Done = {}
    BY DEF Init, Done
  <1> QED BY <1>2, <1>3, <1>4 DEF LoopInv, Init, ExchangedFor

LEMMA CallKeeps == LoopInv /\ Call => LoopInv'
  <1> SUFFICES ASSUME LoopInv, Call PROVE LoopInv'
    OBVIOUS
  <1>1. given' \in Seq(Entries) /\ rows' \in [DOMAIN given' -> Entries]
    BY TurnsKeepNames DEF Call
  <1>2. (at \in 1 .. Len(SwapList) + 1)'
    BY SwapListAssumption DEF Call
  <1>3. Done' = {}
    BY DEF Call, Done
  <1> QED BY <1>1, <1>2, <1>3 DEF LoopInv, Call, ExchangedFor

(* The name of a turn is not among those of the turns before.              *)
LEMMA NewName ==
    ASSUME LoopInv, Turn
    PROVE  /\ SwapList[at] \in SwapNames /\ SwapList[at] \notin Done
           /\ Done' = Done \cup {SwapList[at]}
           /\ at' \in 1 .. Len(SwapList) + 1
  <1>1. at \in DOMAIN SwapList /\ Len(SwapList) \in Nat /\ DOMAIN SwapList = 1 .. Len(SwapList)
    BY SwapListAssumption DEF LoopInv, Turn
  <1>2. 1 .. at' - 1 = (1 .. at - 1) \cup {at}
    BY <1>1 DEF Turn
  <1>3. SwapList[at] \in SwapNames /\ SwapList[at] \notin Done
    BY <1>1, SwapListAssumption DEF Done
  <1>4. Done' = Done \cup {SwapList[at]}
    BY <1>2 DEF Done
  <1> QED BY <1>1, <1>3, <1>4 DEF Turn

(* A turn that goes on to the next name had nothing to exchange: the       *)
(* earlier turns have not changed what the seeks find.                     *)
LEMMA PassOverKeeps ==
    ASSUME LoopInv, Turn, PassOver(SwapList[at])
    PROVE  LoopInv'
  <1> DEFINE p == SwapList[at]
  <1>1. Backed(rows, p) <=> Backed(given, p)
    BY TurnsKeepNames, NamesDecidePairs DEF LoopInv
  <1>2. p \notin SwappedNames(given)
    BY <1>1 DEF PassOver, SwappedNames
  <1>3. Done' \cap SwappedNames(given) = Done \cap SwappedNames(given)
    BY <1>2, NewName
  <1>4. rows' = rows /\ given' = given /\ found' = found
    BY DEF PassOver, Turn
  <1>5. \A i, j : ExchangedFor(Done, i, j)' <=> ExchangedFor(Done, i, j)
    BY <1>3, <1>4 DEF ExchangedFor
  <1>6. (Done \cap SwappedNames(given))' = Done \cap SwappedNames(given)
    BY <1>3, <1>4
  <1> QED BY <1>4, <1>5, <1>6, NewName DEF LoopInv

LEMMA ExchangeKeeps ==
    ASSUME LoopInv, Turn, Exchange(SwapList[at])
    PROVE  LoopInv'
  <1> DEFINE p == SwapList[at]
  <1>1. PICK i, j \in DOMAIN rows :
            IsPair(rows, p, i, j) /\ rows' = [rows EXCEPT ![i] = rows[j], ![j] = rows[i]]
    BY DEF Exchange
  <1>2. /\ i \in DOMAIN given /\ j \in DOMAIN given /\ i # j
        /\ IsPair(given, p, i, j) /\ given[i].ptn = p /\ given[j].ptn = p
    <2>1. IsPair(given, p, i, j) /\ i \in DOMAIN given /\ j \in DOMAIN given
      BY <1>1, TurnsKeepNames, NamesDecidePairs DEF LoopInv
    <2> QED BY <2>1 DEF IsPair, IsSeek
  <1>3. p \in SwappedNames(given)
    BY <1>2, NewName DEF Exchange, SwappedNames, Backed
  <1>4. given' = given /\ found' = TRUE
    BY DEF Turn, Exchange
  <1>5. ASSUME NEW k, NEW m
        PROVE  ExchangedFor(Done, k, m)' <=>
                 ExchangedFor(Done, k, m) \/ IsPair(given, p, k, m) \/ IsPair(given, p, m, k)
    BY <1>3, <1>4, NewName DEF ExchangedFor
  <1>6. ASSUME NEW k \in DOMAIN given, NEW m, ExchangedFor(Done, k, m)
        PROVE  k # i /\ k # j
    <2>1. given[k].ptn \in Done
      BY <1>6 DEF ExchangedFor, IsPair, IsSeek
    <2> QED BY <2>1, <1>2, NewName
  <1>7. rows[i] = given[i] /\ rows[j] = given[j]
    BY <1>2, <1>6 DEF LoopInv
  <1>8. /\ rows' \in [DOMAIN given -> Entries]
        /\ rows'[i] = given[j] /\ rows'[j] = given[i]
        /\ \A k \in DOMAIN given : k # i /\ k # j => rows'[k] = rows[k]
    BY <1>1, <1>2, <1>7 DEF LoopInv
  <1>9. ASSUME NEW k \in DOMAIN given, NEW m \in DOMAIN given, ExchangedFor(Done, k, m)'
        PROVE  rows'[k] = given[m]
    <2>1. CASE ExchangedFor(Done, k, m)
      BY <2>1, <1>6, <1>8 DEF LoopInv
    <2>2. CASE IsPair(given, p, k, m) \/ IsPair(given, p, m, k)
      <3>1. Exchanges(given, k, m) /\ Exchanges(given, i, j) /\ Exchanges(given, j, i)
        BY <2>2, <1>2, <1>3 DEF Exchanges
      <3>2. given \in Seq(Entries)
        BY DEF LoopInv
      <3>3. k = i \/ k = j
        BY <2>2, <1>2, <3>2, SeekUnique, 1 \in Nat \ {0}, i + 1 \in Nat \ {0} DEF IsPair
      <3>4. CASE k = i
        BY <3>1, <3>2, <3>4, <1>8, ExchangeUnique
      <3>5. CASE k = j
        BY <3>1, <3>2, <3>5, <1>8, ExchangeUnique
      <3> QED BY <3>3, <3>4, <3>5
    <2> QED BY <1>5, <1>9, <2>1, <2>2
  <1>10. ASSUME NEW k \in DOMAIN given, \A m \in DOMAIN given : ~ExchangedFor(Done, k, m)'
         PROVE  rows'[k] = given[k]
    <2>1. k # i /\ k # j
      BY <1>2, <1>5, <1>10
    <2>2. \A m \in DOMAIN given : ~ExchangedFor(Done, k, m)
      BY <1>5, <1>10
    <2> QED BY <2>1, <2>2, <1>8 DEF LoopInv
  <1>11. (Done \cap SwappedNames(given) # {})'
    BY <1>3, <1>4, NewName
  <1>12. \A k, m : ExchangedFor(Done, k, m)' <=> ExchangedFor(Done', k, m)
    BY <1>4 DEF ExchangedFor
  <1> QED BY <1>4, <1>8, <1>9, <1>10, <1>11, NewName DEF LoopInv

LEMMA LoopNext == LoopInv /\ [Next]_swapVars => LoopInv'
  <1> SUFFICES ASSUME LoopInv, [Next]_swapVars PROVE LoopInv'
    OBVIOUS
  <1>1. CASE Call
    BY <1>1, CallKeeps
  <1>2. CASE Turn
    BY <1>2, PassOverKeeps, ExchangeKeeps DEF Turn
  <1>3. CASE UNCHANGED swapVars
    BY <1>3 DEF swapVars, LoopInv, Done, ExchangedFor
  <1> QED BY <1>1, <1>2, <1>3 DEF Next

(* After i turns exactly the pairs of the first i names are exchanged.     *)
THEOREM LoopInvHolds == Spec => []LoopInv
  BY LoopInit, LoopNext, PTL DEF Spec

(* The loop over PTN_SWAP_LIST computes BootChainSwap and reports whether  *)
(* it found a backup.                                                      *)
LEMMA LoopResult == LoopInv => SwapIsLoop
  <1> SUFFICES ASSUME LoopInv, Returned
               PROVE  rows = BootChainSwap(given) /\ (found <=> BackupFound(given))
    BY DEF SwapIsLoop
  <1> DEFINE new == BootChainSwap(given)
  <1>0. given \in Seq(Entries) /\ DOMAIN given = 1 .. Len(given) /\ Len(given) \in Nat
    BY DEF LoopInv
  <1>1. Done \cap SwappedNames(given) = SwappedNames(given)
    <2>1. at = Len(SwapList) + 1 /\ Len(SwapList) \in Nat
          /\ DOMAIN SwapList = 1 .. Len(SwapList)
      BY SwapListAssumption DEF LoopInv
    <2>2. Done = SwapNames
      BY <2>1, SwapListAssumption DEF Done
    <2> QED BY <2>2 DEF SwappedNames
  <1>2. \A i, j : ExchangedFor(Done, i, j) <=> Exchanges(given, i, j)
    BY <1>1 DEF ExchangedFor, Exchanges
  <1>3. ASSUME NEW i \in 1 .. Len(given)
        PROVE  rows[i] = new[i]
    <2>1. CASE \E j \in DOMAIN given : Exchanges(given, i, j)
      <3>1. PICK j \in DOMAIN given : Exchanges(given, i, j)
        BY <2>1
      <3>2. rows[i] = given[j]
        BY <1>0, <1>2, <3>1 DEF LoopInv
      <3> QED BY <1>0, <3>1, <3>2, SwapAt
    <2>2. CASE ~\E j \in DOMAIN given : Exchanges(given, i, j)
      <3>1. rows[i] = given[i]
        BY <1>0, <1>2, <2>2 DEF LoopInv
      <3> QED BY <1>0, <2>2, <3>1 DEF BootChainSwap
    <2> QED BY <2>1, <2>2
  <1>4. rows = new
    <2>1. new \in Seq(Entries) /\ Len(new) = Len(given)
      BY <1>0, SwapKeepsNames
    <2>2. rows \in Seq(Entries) /\ Len(rows) = Len(given)
      BY TurnsKeepNames
    <2> HIDE DEF new
    <2> QED BY <1>3, <2>1, <2>2, SeqEqual
  <1>5. found <=> BackupFound(given)
    BY <1>1 DEF LoopInv, BackupFound
  <1> QED BY <1>4, <1>5

THEOREM SwapIsLoopHolds == Spec => []SwapIsLoop
  BY LoopInvHolds, LoopResult, PTL

(* A second call undoes the first one, however the names are listed.       *)
THEOREM SwapTwiceIsIdentityHolds == Spec => []SwapTwiceIsIdentity
  <1>1. LoopInv => SwapTwiceIsIdentity
    BY LoopResult, SwapInvolution, SwapKeepsPairs
       DEF LoopInv, SwapIsLoop, SwapTwiceIsIdentity
  <1> QED BY <1>1, LoopInvHolds, PTL

(* What a call flips, for every table: the first entry of a name that is   *)
(* exchanged is its twin, and that of every other name stays.              *)
LEMMA LoopFlips == LoopInv => SwapFlipsExactlyBacked
  <1> SUFFICES ASSUME LoopInv, Returned, NEW p \in Names, NEW c \in Copies
               PROVE  Loads(rows, p, c) <=>
                        IF p \in SwappedNames(given)
                        THEN \E i, j \in DOMAIN given :
                                IsPair(given, p, i, j) /\ given[j].copy = c
                        ELSE Loads(given, p, c)
    BY DEF SwapFlipsExactlyBacked
  <1>1. /\ given \in Seq(Entries) /\ rows = BootChainSwap(given)
        /\ DOMAIN rows = DOMAIN given
        /\ \A i : IsSeek(rows, p, 1, i) <=> IsSeek(given, p, 1, i)
    BY LoopResult, TurnsKeepNames, NamesDecidePairs DEF LoopInv, SwapIsLoop
  <1>2. CASE p \in SwappedNames(given)
    <2>1. PICK i, j \in DOMAIN given : IsPair(given, p, i, j)
      BY <1>2 DEF SwappedNames, Backed
    <2>2. rows[i] = given[j]
      BY <1>1, <1>2, <2>1, SwapAt DEF Exchanges
    <2>3. \A k, m : /\ IsSeek(given, p, 1, k) => k = i
                    /\ IsPair(given, p, k, m) => k = i /\ m = j
      <3>1. \A k : IsSeek(given, p, 1, k) => k = i
        BY <1>1, <2>1, SeekUnique, 1 \in Nat \ {0} DEF IsPair
      <3>2. i + 1 \in Nat \ {0}
        BY <2>1 DEF IsPair, IsSeek
      <3> QED BY <1>1, <2>1, <3>1, <3>2, SeekUnique DEF IsPair
    <2>4. Loads(rows, p, c) <=> given[j].copy = c
      BY <1>1, <2>1, <2>2, <2>3 DEF Loads, IsPair
    <2> QED BY <1>2, <2>1, <2>3, <2>4
  <1>3. CASE p \notin SwappedNames(given)
    <2>1. ASSUME NEW i \in DOMAIN given, IsSeek(given, p, 1, i)
          PROVE  rows[i] = given[i]
      <3>1. ~\E j \in DOMAIN given : Exchanges(given, i, j)
        BY <1>3, <2>1 DEF Exchanges, IsPair, IsSeek
      <3> QED BY <1>1, <3>1 DEF BootChainSwap
    <2> QED BY <1>1, <1>3, <2>1 DEF Loads
  <1> QED BY <1>2, <1>3

THEOREM SwapFlipsExactlyBackedHolds == Spec => []SwapFlipsExactlyBacked
  BY LoopInvHolds, LoopFlips, PTL

(* In the middle of the loop as at its end, every entry of the array that  *)
(* was passed in is in one slot: the slot of its twin if the loop has      *)
(* exchanged them, its own if not.                                         *)
LEMMA LoopRearranges == LoopInv => NoEntryLost
  <1> SUFFICES ASSUME LoopInv PROVE NoEntryLost
    OBVIOUS
  <1> DEFINE Moved(i) == \E j \in DOMAIN given : ExchangedFor(Done, i, j)
             f == [i \in DOMAIN rows |->
                     IF Moved(i) THEN CHOOSE j \in DOMAIN given : ExchangedFor(Done, i, j)
                     ELSE i]
  <1>0. given \in Seq(Entries) /\ DOMAIN rows = DOMAIN given
    BY TurnsKeepNames DEF LoopInv
  <1>1. ASSUME NEW i \in DOMAIN rows
        PROVE  /\ f[i] \in DOMAIN given
               /\ Moved(i) => ExchangedFor(Done, i, f[i])
               /\ ~Moved(i) => f[i] = i
    BY <1>0
  <1> HIDE DEF f
  <1>2. f \in [DOMAIN rows -> DOMAIN given]
    BY <1>1 DEF f
  <1>3. ASSUME NEW i \in DOMAIN rows, NEW j \in DOMAIN rows, f[i] = f[j]
        PROVE  i = j
    <2>1. CASE Moved(i) /\ Moved(j)
      <3>1. Exchanges(given, f[i], i) /\ Exchanges(given, f[i], j)
        BY <1>1, <1>3, <2>1, ExchangedIsExchange
      <3> QED BY <1>0, <3>1, ExchangeUnique
    <2>2. CASE Moved(i) /\ ~Moved(j)
      <3>1. ExchangedFor(Done, j, i)
        BY <1>1, <1>3, <2>2, ExchangedIsExchange
      <3> QED BY <1>0, <2>2, <3>1
    <2>3. CASE ~Moved(i) /\ Moved(j)
      <3>1. ExchangedFor(Done, i, j)
        BY <1>1, <1>3, <2>3, ExchangedIsExchange
      <3> QED BY <1>0, <2>3, <3>1
    <2>4. CASE ~Moved(i) /\ ~Moved(j)
      BY <1>1, <1>3, <2>4
    <2> QED BY <2>1, <2>2, <2>3, <2>4
  <1>4. \A i \in DOMAIN rows : rows[i] = given[f[i]]
    BY <1>0, <1>1 DEF LoopInv
  <1> QED BY <1>0, <1>2, <1>3, <1>4 DEF NoEntryLost

THEOREM NoEntryLostHolds == Spec => []NoEntryLost
  BY LoopInvHolds, LoopRearranges, PTL
=============================================================================
