--------------------------- MODULE GptTableProofs ---------------------------
(***************************************************************************)
(* Facts about gpt_boot_chain_swap, for every table.                       *)
(***************************************************************************)
EXTENDS GptTable, SequenceTheorems, TLAPS

(* The seek has one result: "the first entry" is unique.                   *)
LEMMA SeekUnique ==
    ASSUME NEW rows \in Seq(Entries), NEW p, NEW from \in Nat \ {0}, NEW i, NEW j,
           IsSeek(rows, p, from, i), IsSeek(rows, p, from, j)
    PROVE  i = j
  <1>1. i \in Int /\ j \in Int /\ i >= from /\ j >= from
    BY DEF IsSeek
  <1>2. CASE i < j
    BY <1>1, <1>2 DEF IsSeek
  <1>3. CASE j < i
    BY <1>1, <1>3 DEF IsSeek
  <1> QED BY <1>1, <1>2, <1>3

(* An entry of a pair determines the other one: the exchanges of distinct  *)
(* names, and of the two roles in a pair, never meet.                      *)
LEMMA ExchangeUnique ==
    ASSUME NEW rows \in Seq(Entries), NEW i, NEW j, NEW k,
           Exchanges(rows, i, j), Exchanges(rows, i, k)
    PROVE  j = k
  <1>1. PICK p \in SwappedNames(rows) : IsPair(rows, p, i, j) \/ IsPair(rows, p, j, i)
    BY DEF Exchanges
  <1>2. PICK q \in SwappedNames(rows) : IsPair(rows, q, i, k) \/ IsPair(rows, q, k, i)
    BY DEF Exchanges
  <1>3. p = q
    BY <1>1, <1>2 DEF IsPair, IsSeek
  <1>4. i \in Nat \ {0}
    BY <1>1 DEF IsPair, IsSeek
  <1>5. CASE IsPair(rows, p, i, j) /\ IsPair(rows, p, i, k)
    BY <1>4, <1>5, SeekUnique, i + 1 \in Nat \ {0} DEF IsPair
  <1>6. CASE IsPair(rows, p, j, i) /\ IsPair(rows, p, k, i)
    BY <1>6, SeekUnique DEF IsPair
  <1>7. CASE IsPair(rows, p, i, j) /\ IsPair(rows, p, k, i)
    BY <1>7 DEF IsPair, IsSeek
  <1>8. CASE IsPair(rows, p, j, i) /\ IsPair(rows, p, i, k)
    BY <1>8 DEF IsPair, IsSeek
  <1> QED BY <1>1, <1>2, <1>3, <1>5, <1>6, <1>7, <1>8

(* What BootChainSwap puts at either position of a pair.                   *)
LEMMA SwapAt ==
    ASSUME NEW rows \in Seq(Entries), NEW i \in DOMAIN rows, NEW j \in DOMAIN rows,
           Exchanges(rows, i, j)
    PROVE  BootChainSwap(rows)[i] = rows[j]
  <1>1. (CHOOSE k \in DOMAIN rows : Exchanges(rows, i, k)) = j
    BY ExchangeUnique
  <1> QED BY <1>1 DEF BootChainSwap

(* An exchange moves entries between positions of the same name, so every  *)
(* position keeps its partition name and the table its length.             *)
LEMMA SwapKeepsNames ==
    ASSUME NEW rows \in Seq(Entries)
    PROVE  /\ BootChainSwap(rows) \in Seq(Entries)
           /\ Len(BootChainSwap(rows)) = Len(rows)
           /\ \A i \in DOMAIN rows : BootChainSwap(rows)[i].ptn = rows[i].ptn
  <1> DEFINE new == BootChainSwap(rows)
  <1>1. \A i \in DOMAIN rows : new[i] \in Entries /\ new[i].ptn = rows[i].ptn
    <2> SUFFICES ASSUME NEW i \in DOMAIN rows
                 PROVE  new[i] \in Entries /\ new[i].ptn = rows[i].ptn
      OBVIOUS
    <2>1. CASE \E j \in DOMAIN rows : Exchanges(rows, i, j)
      <3>1. PICK j \in DOMAIN rows : Exchanges(rows, i, j)
        BY <2>1
      <3>2. new[i] = rows[j]
        BY <3>1, SwapAt
      <3>3. rows[j].ptn = rows[i].ptn
        BY <3>1 DEF Exchanges, IsPair, IsSeek
      <3> QED BY <3>2, <3>3
    <2>2. CASE ~\E j \in DOMAIN rows : Exchanges(rows, i, j)
      BY <2>2 DEF BootChainSwap
    <2> QED BY <2>1, <2>2
  <1>2. Len(rows) \in Nat /\ DOMAIN rows = 1 .. Len(rows)
    OBVIOUS
  <1>3. new \in [1 .. Len(rows) -> Entries]
    BY <1>1, <1>2 DEF BootChainSwap
  <1>4. new \in Seq(Entries)
    BY <1>2, <1>3, SeqDef
  <1>5. Len(new) = Len(rows)
    BY <1>2, <1>3, <1>4, LenProperties
  <1> QED BY <1>1, <1>4, <1>5

(* A shipped table boots the main copy of every backed partition, the      *)
(* swapped one boots the backup copy of those that the code swaps.         *)
LEMMA FactoryLoadsMain ==
    ASSUME NEW rows, IsFactoryTable(rows), NEW p \in SwapNames, Backed(rows, p)
    PROVE  Loads(rows, p, "main")
  BY DEF IsFactoryTable, Backed, Loads, IsPair

THEOREM SwapLoadsBackup ==
    ASSUME NEW rows, IsFactoryTable(rows), NEW p \in SwappedNames(rows)
    PROVE  Loads(BootChainSwap(rows), p, "bak")
  <1> DEFINE new == BootChainSwap(rows)
  <1>0. rows \in Seq(Entries) /\ p \in SwapNames
    BY DEF IsFactoryTable, SwappedNames
  <1>1. PICK i, j \in DOMAIN rows : IsPair(rows, p, i, j)
    BY DEF SwappedNames, Backed
  <1>2. new[i] = rows[j]
    BY <1>0, <1>1, SwapAt DEF Exchanges
  <1>3. rows[j].copy = "bak"
    BY <1>0, <1>1 DEF IsFactoryTable
  <1>4. IsSeek(new, p, 1, i)
    BY <1>0, <1>1, SwapKeepsNames DEF IsPair, IsSeek
  <1>5. i \in DOMAIN new
    BY <1>0, SwapKeepsNames
  <1> QED BY <1>2, <1>3, <1>4, <1>5 DEF Loads

(* The seeks look at names only: two arrays with the same name in every    *)
(* slot have the same pairs.                                               *)
LEMMA NamesDecidePairs ==
    ASSUME NEW old \in Seq(Entries), NEW new \in Seq(Entries), Len(new) = Len(old),
           \A i \in DOMAIN old : new[i].ptn = old[i].ptn
    PROVE  /\ \A p, i : IsSeek(new, p, 1, i) <=> IsSeek(old, p, 1, i)
           /\ \A p, i, j : IsPair(new, p, i, j) <=> IsPair(old, p, i, j)
           /\ \A p : Backed(new, p) <=> Backed(old, p)
  <1>1. \A p, i : \A from \in Nat \ {0} : IsSeek(new, p, from, i) <=> IsSeek(old, p, from, i)
    BY DEF IsSeek
  <1>2. ASSUME NEW p, NEW i, NEW j
        PROVE  IsPair(new, p, i, j) <=> IsPair(old, p, i, j)
    <2>1. IsSeek(new, p, 1, i) <=> IsSeek(old, p, 1, i)
      BY <1>1
    <2>2. IsSeek(old, p, 1, i) => i + 1 \in Nat \ {0}
      BY DEF IsSeek
    <2> QED BY <2>1, <2>2, <1>1 DEF IsPair
  <1>3. DOMAIN new = DOMAIN old
    OBVIOUS
  <1> QED BY <1>1, <1>2, <1>3 DEF Backed

(* So the swapped table has the pairs of the table.                        *)
LEMMA SwapKeepsPairs ==
    ASSUME NEW rows \in Seq(Entries)
    PROVE  /\ SwappedNames(BootChainSwap(rows)) = SwappedNames(rows)
           /\ \A i, j : Exchanges(BootChainSwap(rows), i, j) = Exchanges(rows, i, j)
  <1> DEFINE new == BootChainSwap(rows)
  <1>1. /\ \A p, i, j : IsPair(new, p, i, j) <=> IsPair(rows, p, i, j)
        /\ \A p : Backed(new, p) <=> Backed(rows, p)
    BY SwapKeepsNames, NamesDecidePairs
  <1> HIDE DEF new
  <1>2. SwappedNames(new) = SwappedNames(rows)
    BY <1>1 DEF SwappedNames
  <1>3. \A i, j : Exchanges(new, i, j) = Exchanges(rows, i, j)
    BY <1>1, <1>2 DEF Exchanges
  <1> QED BY <1>2, <1>3 DEF new

(* Undoing the exchange is the exchange: a stage that runs again after a   *)
(* crash computes the same secondary table, and nothing is lost.           *)
THEOREM SwapInvolution ==
    ASSUME NEW rows \in Seq(Entries)
    PROVE  BootChainSwap(BootChainSwap(rows)) = rows
  <1> DEFINE new == BootChainSwap(rows)
             back == BootChainSwap(new)
  <1>0. /\ new \in Seq(Entries) /\ Len(new) = Len(rows)
        /\ back \in Seq(Entries) /\ Len(back) = Len(rows)
    BY SwapKeepsNames
  <1>1. ASSUME NEW i \in 1 .. Len(rows)
        PROVE  back[i] = rows[i]
    <2>0. DOMAIN rows = 1 .. Len(rows) /\ DOMAIN new = 1 .. Len(rows)
      BY <1>0
    <2>1. CASE \E j \in DOMAIN rows : Exchanges(rows, i, j)
      <3>1. PICK j \in DOMAIN rows : Exchanges(rows, i, j)
        BY <2>1
      <3>2. Exchanges(rows, j, i)
        BY <3>1 DEF Exchanges
      <3>3. new[j] = rows[i]
        BY <2>0, <3>2, SwapAt
      <3>4. Exchanges(new, i, j)
        BY <3>1, SwapKeepsPairs
      <3>5. back[i] = new[j]
        BY <1>0, <2>0, <3>4, SwapAt
      <3> QED BY <3>3, <3>5
    <2>2. CASE ~\E j \in DOMAIN rows : Exchanges(rows, i, j)
      <3>1. new[i] = rows[i]
        BY <2>0, <2>2 DEF BootChainSwap
      <3>2. ~\E j \in DOMAIN new : Exchanges(new, i, j)
        BY <2>0, <2>2, SwapKeepsPairs
      <3>3. back[i] = new[i]
        <4> HIDE DEF new
        <4> QED BY <2>0, <3>2 DEF BootChainSwap
      <3> QED BY <3>1, <3>3
    <2> QED BY <2>1, <2>2
  <1> QED BY <1>0, <1>1, SeqEqual

=============================================================================
