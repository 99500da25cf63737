-------------------------- MODULE CycleCountProofs --------------------------
(***************************************************************************)
(* Theorems about CycleCount, for any number of buckets and cycles, any    *)
(* trigger, any levels and any faults.                                     *)
(***************************************************************************)
EXTENDS CycleCount, TLAPS

(* Every copy of the bins counts at most the cycles there were.            *)
PhantomInv ==
    /\ TypeOK
    /\ AtMost(sram, real) /\ AtMost(sw, real) /\ AtMost(hw, real)
    /\ AtMost(file, real) /\ AtMost(media, real)

(* Unless "failed", the bins that were on the medium, and those of the     *)
(* file, are covered: by the gauge and the file outside of a save,         *)
(* by what was read while a merge is due, and by the merged bins during a  *)
(* save; by the gauge alone while the file is behind or about to be.       *)
SafeCopies ==
    /\ AtMost(flushed, Larger(sram, media))
    /\ AtMost(flushed, Larger(sram, file))
    /\ file # media \/ pc \in {"saveStorage", "writeStorage"} => AtMost(flushed, sram)
    /\ pc \in {"readSRAM", "idle"} =>
          AtMost(flushed, Larger(sram, sw)) /\ AtMost(file, Larger(sram, sw))
    /\ pc = "saveSRAM" => AtMost(flushed, hw) /\ AtMost(file, hw)
    /\ pc \in {"saveStorage", "writeStorage"} => AtMost(file, sram)
    /\ pc \in {"saveSRAM", "saveStorage", "writeStorage"} =>
          AtMost(flushed, sw) /\ AtMost(file, sw)

CopiesInv == TypeOK /\ (~failed => SafeCopies)

-----------------------------------------------------------------------------
(* Bins as they are in a variable: counts, or the -1 of an empty file.     *)
Bins == [Buckets -> Int]

(* The order of bins, and the merge as its join.                           *)
LEMMA CountsAreBins ==
    /\ Counts \subseteq Bins
    /\ Empty \in Bins
    /\ Zero \in Counts
    /\ \A x \in Counts : AtMost(Zero, x) /\ AtMost(Empty, x)
BY CycleCountAssumption DEF Counts, Bins, Empty, Zero, AtMost

LEMMA AtMostOrder ==
    /\ \A x \in Bins : AtMost(x, x)
    /\ \A x, y, z \in Bins : AtMost(x, y) /\ AtMost(y, z) => AtMost(x, z)
BY DEF Bins, AtMost

LEMMA LargerIsJoin ==
    ASSUME NEW x \in Bins, NEW y \in Bins
    PROVE  /\ Larger(x, y) \in Bins
           /\ AtMost(x, Larger(x, y)) /\ AtMost(y, Larger(x, y))
           /\ \A z \in Bins : AtMost(x, z) /\ AtMost(y, z) => AtMost(Larger(x, y), z)
BY DEF Bins, AtMost, Larger

LEMMA LargerCounts ==
    ASSUME NEW x \in Counts, NEW y \in Counts \cup {Empty}
    PROVE  Larger(x, y) \in Counts /\ Larger(y, x) \in Counts
BY CycleCountAssumption DEF Counts, Larger, Empty

LEMMA LargerFile ==
    ASSUME NEW x \in Counts \cup {Empty}, NEW y \in Counts \cup {Empty}
    PROVE  Larger(x, y) \in Counts \cup {Empty}
BY CycleCountAssumption DEF Counts, Larger, Empty

-----------------------------------------------------------------------------
(* The merge of bins that are all counts is a count.                       *)
LEMMA MergeTypes ==
    ASSUME TypeOK, NEW gauge \in Counts, UpdateAndSave(gauge)
    PROVE  /\ sw' = Larger(gauge, sw) /\ hw' = sw'
           /\ sw' \in Counts /\ hw' \in Counts
           /\ backup' \in BOOLEAN
           /\ pc' \in {"saveSRAM", "saveStorage", "idle"}
           /\ pc' # "saveSRAM" => sw' = gauge
<1>1. sw' \in Counts
    BY LargerCounts DEF UpdateAndSave, TypeOK
<1> QED BY <1>1 DEF UpdateAndSave

(* The accounting of the levels, as the process starts with it.            *)
LEMMA NoRise == 0 \in 0 .. (BackupTrigger - 1)
BY CycleCountAssumption

LEMMA PhantomInit == Init => PhantomInv
<1> SUFFICES ASSUME Init PROVE PhantomInv
    OBVIOUS
<1>1. TypeOK
    BY CountsAreBins, NoRise DEF Init, TypeOK, Labels
<1> QED BY <1>1, CountsAreBins DEF Init, PhantomInv

(* A cycle is counted by the battery and by the gauge.                     *)
LEMMA CountKeeps ==
    ASSUME PhantomInv, NEW b \in Buckets, CountCycle(b)
    PROVE  /\ real' \in Counts /\ sram' \in Counts
           /\ AtMost(sram', real') /\ AtMost(real, real') /\ AtMost(sram, sram')
BY CycleCountAssumption DEF CountCycle, PhantomInv, TypeOK, Counts, AtMost

(* A level is added to the rises, or the rises are worth a backup.         *)
LEMMA LevelKeeps ==
    ASSUME TypeOK, NEW level \in Levels, BatteryUpdate(level)
    PROVE  /\ savedSoc' \in Levels \cup {0} /\ socInc' \in 0 .. (BackupTrigger - 1)
           /\ isFirst' \in BOOLEAN /\ pc' \in {"readSRAM", "idle"}
<1>1. savedSoc \in Nat /\ level \in Nat /\ socInc \in Nat /\ socInc < BackupTrigger
    BY CycleCountAssumption DEF TypeOK
<1>2. /\ savedSoc' \in Levels \cup {0} /\ isFirst' \in BOOLEAN
      /\ pc' \in {"readSRAM", "idle"}
    BY DEF BatteryUpdate
<1> DEFINE rise == IF isFirst \/ level <= savedSoc THEN 0 ELSE level - savedSoc
<1>3. rise \in Nat /\ (isFirst => rise = 0)
    BY <1>1
<1>4. socInc' = IF ~isFirst /\ socInc + rise >= BackupTrigger THEN 0 ELSE socInc + rise
    BY DEF BatteryUpdate
<1> HIDE DEF rise
<1>5. socInc' \in 0 .. (BackupTrigger - 1)
    BY <1>1, <1>3, <1>4, CycleCountAssumption
<1> QED BY <1>2, <1>5

LEMMA PhantomNext == PhantomInv /\ [Next]_vars => PhantomInv'
<1> SUFFICES ASSUME PhantomInv, [Next]_vars PROVE PhantomInv'
    OBVIOUS
<1>0. TypeOK
    BY DEF PhantomInv
<1>a. /\ real \in Counts /\ sram \in Counts /\ sw \in Counts /\ hw \in Counts
      /\ {real, sram, sw, hw, file, media, Empty, Zero} \subseteq Bins
      /\ AtMost(Zero, real) /\ AtMost(Empty, real)
    BY <1>0, CountsAreBins DEF TypeOK
<1>b. \A x \in {sram, sw, hw, file, media} : AtMost(x, real)
    BY DEF PhantomInv
<1>c. ASSUME NEW gauge \in {sram, hw}
      PROVE  AtMost(Larger(gauge, sw), real)
    BY <1>a, <1>b, LargerIsJoin
<1>1. CASE Start
    <2>1. TypeOK'
        BY <1>0, <1>1, CountsAreBins, NoRise DEF Start, TypeOK, Labels, counts
    <2> QED BY <1>1, <1>a, <1>b, <2>1 DEF Start, PhantomInv, counts
<1>2. CASE ReadFromStorage
    BY <1>0, <1>2, <1>b DEF ReadFromStorage, Fails, PhantomInv, TypeOK, Labels, counts, soc
<1>3. CASE ReadFromSRAM
    <2>1. PICK gauge \in {sram, hw} : UpdateAndSave(gauge) /\ failed' \in BOOLEAN
        BY <1>0, <1>3 DEF ReadFromSRAM, Fails, TypeOK
    <2>2. /\ sw' = Larger(gauge, sw) /\ hw' = sw'
          /\ sw' \in Counts /\ hw' \in Counts
          /\ backup' \in BOOLEAN
          /\ pc' \in {"saveSRAM", "saveStorage", "idle"}
        BY <1>0, <1>a, <2>1, MergeTypes
    <2>3. AtMost(sw', real) /\ AtMost(hw', real)
        BY <1>c, <2>2
    <2> QED BY <1>0, <1>3, <1>b, <2>1, <2>2, <2>3 DEF ReadFromSRAM, PhantomInv, TypeOK, Labels, counts, soc
<1>4. CASE SaveToSRAM
    BY <1>0, <1>4, <1>b DEF SaveToSRAM, AfterSRAM, Fails, PhantomInv, TypeOK, Labels, soc
<1>5. CASE SaveToStorage
    BY <1>0, <1>5, <1>a, <1>b DEF SaveToStorage, Fails, PhantomInv, TypeOK, Labels, soc
<1>6. CASE WriteStorage
    BY <1>0, <1>6, <1>a, <1>b DEF WriteStorage, Fails, PhantomInv, TypeOK, Labels, soc
<1>7. CASE \E level \in Levels : BatteryUpdate(level)
    BY <1>0, <1>7, <1>b, LevelKeeps DEF BatteryUpdate, PhantomInv, TypeOK, Labels, counts
<1>8. CASE \E b \in Buckets : CountCycle(b)
    <2>1. PICK b \in Buckets : CountCycle(b)
        BY <1>8
    <2>2. /\ real' \in Counts /\ sram' \in Counts
          /\ AtMost(sram', real') /\ AtMost(real, real')
        BY <2>1, CountKeeps
    <2>3. real' \in Bins /\ \A x \in {sw, hw, file, media} : AtMost(x, real')
        BY <1>a, <1>b, <2>2, CountsAreBins, AtMostOrder
    <2> QED BY <1>0, <2>1, <2>2, <2>3 DEF CountCycle, PhantomInv, TypeOK, Labels, soc
<1>9. CASE Flush
    <2>1. flushed' \in Counts \cup {Empty}
        BY <1>0, <1>9, LargerFile DEF Flush, TypeOK
    <2> QED BY <1>0, <1>9, <1>b, <2>1 DEF Flush, PhantomInv, TypeOK, Labels, soc
<1>10. CASE Kill
    BY <1>0, <1>10, <1>b DEF Kill, PhantomInv, TypeOK, Labels, counts, soc
<1>11. CASE PowerLoss
    BY <1>0, <1>11, <1>a, <1>b DEF PowerLoss, PhantomInv, TypeOK, Labels, soc
<1>12. CASE GaugeReset
    BY <1>0, <1>12, <1>a, <1>b, CountsAreBins DEF GaugeReset, PhantomInv, TypeOK, Labels, soc
<1>13. CASE UNCHANGED vars
    BY <1>0, <1>13, <1>b DEF vars, counts, soc, PhantomInv, TypeOK, Labels
<1> QED
    BY <1>1, <1>2, <1>3, <1>4, <1>5, <1>6, <1>7, <1>8, <1>9, <1>10, <1>11, <1>12, <1>13
       DEF Next, Service

LEMMA PhantomCorrect == Spec => []PhantomInv
BY PhantomInit, PhantomNext, PTL DEF Spec

(* The types: the rises that have not been worth a backup stay below the   *)
(* trigger, and no merge or reset leaves a copy that is not a count.       *)
THEOREM TypeOKHolds == Spec => []TypeOK
<1>1. PhantomInv => TypeOK
    BY DEF PhantomInv
<1> QED BY <1>1, PhantomCorrect, PTL

(* No merge, whichever read failed and whatever an interrupted save left,  *)
(* invents a cycle the battery has not gone through.                       *)
THEOREM NoPhantomCyclesHolds == Spec => []NoPhantomCycles
<1>1. PhantomInv => NoPhantomCycles
    BY DEF PhantomInv, NoPhantomCycles
<1> QED BY <1>1, PhantomCorrect, PTL

-----------------------------------------------------------------------------
(* A copy is covered by what is larger than it.                            *)
LEMMA LargerAbove ==
    ASSUME NEW x \in Bins, NEW y \in Bins, NEW z \in Bins
    PROVE  /\ AtMost(x, y) => AtMost(x, Larger(y, z)) /\ AtMost(x, Larger(z, y))
           /\ AtMost(z, y) /\ AtMost(x, Larger(y, z)) => AtMost(x, y)
           /\ AtMost(x, Larger(y, z)) <=> AtMost(x, Larger(z, y))
BY DEF Bins, AtMost, Larger

LEMMA CopiesInit == Init => CopiesInv
BY CycleCountAssumption, CountsAreBins, AtMostOrder, LargerAbove, PhantomInit
   DEF Init, CopiesInv, SafeCopies, PhantomInv

LEMMA CopiesNext ==
    ASSUME CopiesInv, TypeOK', [Next]_vars
    PROVE  CopiesInv'
<1> SUFFICES ASSUME ~failed' PROVE SafeCopies'
    BY DEF CopiesInv
<1>0. /\ {real, sram, sw, hw} \subseteq Counts
      /\ {file, media, flushed} \subseteq Counts \cup {Empty}
      /\ {sram', sw', hw'} \subseteq Counts
      /\ {file', media', flushed'} \subseteq Counts \cup {Empty}
    BY DEF CopiesInv, TypeOK
<1>a. /\ {sram, sw, hw, file, media, flushed, Empty, Zero} \subseteq Bins
      /\ {sram', sw', hw', file', media', flushed'} \subseteq Bins
      /\ AtMost(Empty, sram) /\ AtMost(Empty, sw) /\ AtMost(Empty, hw)
      /\ AtMost(Zero, sram) /\ AtMost(Zero, sw)
    BY <1>0, CountsAreBins
<1>1. CASE Start
    <2>1. CASE failed
        <3>1. /\ file' = file /\ media' = media /\ sram' = sram
              /\ file = media /\ flushed' = media /\ pc' = "readStorage"
            BY <1>1, <2>1 DEF Start
        <3>2. AtMost(media, Larger(sram, media))
            BY <1>a, LargerIsJoin
        <3> QED BY <3>1, <3>2 DEF SafeCopies
    <2>2. CASE ~failed
        BY <1>1, <2>2 DEF Start, CopiesInv, SafeCopies
    <2> QED BY <2>1, <2>2
<1> SUFFICES ASSUME ~Start PROVE SafeCopies'
    BY <1>1
<1>b. ~failed
    BY DEF Next, Service, vars, counts, Fails, ReadFromStorage, ReadFromSRAM, SaveToSRAM,
           SaveToStorage, WriteStorage, BatteryUpdate, CountCycle, Flush, Kill, PowerLoss,
           GaugeReset, CopiesInv, TypeOK
<1>c. SafeCopies
    BY <1>b DEF CopiesInv
<1>2. CASE ReadFromStorage
    <2>1. sw' = IF file = Empty THEN sw ELSE file
        BY <1>2 DEF ReadFromStorage, Fails
    <2>2. AtMost(file, Larger(sram, sw'))
        BY <1>a, <2>1, LargerAbove, AtMostOrder
    <2>3. AtMost(flushed, Larger(sram, sw'))
        BY <1>a, <1>c, <2>1, LargerAbove DEF SafeCopies
    <2> QED BY <1>2, <1>c, <2>2, <2>3 DEF ReadFromStorage, counts, SafeCopies
<1>3. CASE ReadFromSRAM
    <2>1. UpdateAndSave(sram)
        BY <1>3 DEF ReadFromSRAM, Fails
    <2>2. /\ sw' = Larger(sram, sw) /\ hw' = sw'
          /\ pc' \in {"saveSRAM", "saveStorage", "idle"}
          /\ pc' # "saveSRAM" => sw' = sram
        BY <1>0, <2>1, MergeTypes DEF CopiesInv
    <2>3. AtMost(flushed, sw') /\ AtMost(file, sw')
        BY <1>3, <1>c, <2>2 DEF ReadFromSRAM, SafeCopies
    <2>4. AtMost(flushed, Larger(sram, sw')) /\ AtMost(file, Larger(sram, sw'))
        BY <1>a, <2>3, LargerAbove
    <2> QED BY <1>3, <1>c, <2>2, <2>3, <2>4 DEF ReadFromSRAM, counts, SafeCopies
<1>4. CASE SaveToSRAM
    <2>1. sram' = hw /\ pc' \in {"saveStorage", "idle"}
        BY <1>4 DEF SaveToSRAM, AfterSRAM, Fails
    <2>2. AtMost(flushed, sram') /\ AtMost(file, sram')
        BY <1>4, <1>c, <2>1 DEF SaveToSRAM, SafeCopies
    <2>3. \A x \in {media, file, sw} : AtMost(flushed, Larger(sram', x)) /\ AtMost(file, Larger(sram', x))
        BY <1>a, <2>2, LargerAbove
    <2> QED BY <1>4, <1>c, <2>1, <2>2, <2>3 DEF SaveToSRAM, SafeCopies
<1>5. CASE SaveToStorage
    <2>1. file' = Empty /\ pc' = "writeStorage"
        BY <1>5 DEF SaveToStorage, Fails
    <2>2. AtMost(flushed, sram) /\ AtMost(flushed, sw)
        BY <1>5, <1>c DEF SaveToStorage, SafeCopies
    <2>3. AtMost(flushed, Larger(sram, Empty))
        BY <1>a, <2>2, LargerAbove
    <2> QED BY <1>5, <1>a, <1>c, <2>1, <2>2, <2>3 DEF SaveToStorage, SafeCopies
<1>6. CASE WriteStorage
    <2>1. file' = sw /\ pc' = "idle"
        BY <1>6 DEF WriteStorage, Fails
    <2>2. AtMost(flushed, sram)
        BY <1>6, <1>c DEF WriteStorage, SafeCopies
    <2>3. AtMost(flushed, Larger(sram, sw)) /\ AtMost(sw, Larger(sram, sw))
        BY <1>a, <2>2, LargerAbove, AtMostOrder
    <2> QED BY <1>6, <1>c, <2>1, <2>2, <2>3 DEF WriteStorage, SafeCopies
<1>7. CASE \E level \in Levels : BatteryUpdate(level)
    <2>1. pc = "idle" /\ pc' \in {"readSRAM", "idle"} /\ UNCHANGED <<counts, sw, hw>>
        BY <1>7, LevelKeeps DEF BatteryUpdate, CopiesInv
    <2> QED BY <1>c, <2>1 DEF counts, SafeCopies
<1>8. CASE \E b \in Buckets : CountCycle(b)
    <2>1. PICK b \in Buckets : CountCycle(b)
        BY <1>8
    <2>2. AtMost(sram, sram')
        BY <1>0, <2>1, CycleCountAssumption DEF CountCycle, Counts, AtMost
    <2>3. ASSUME NEW x \in Bins, NEW y \in Bins
          PROVE  /\ AtMost(x, sram) => AtMost(x, sram')
                 /\ AtMost(x, Larger(sram, y)) => AtMost(x, Larger(sram', y))
        BY <1>a, <2>2 DEF Bins, AtMost, Larger
    <2> QED BY <1>a, <1>c, <2>1, <2>3 DEF CountCycle, SafeCopies
<1>9. CASE Flush
    <2>1. media' = file /\ flushed' = Larger(flushed, file)
        BY <1>9 DEF Flush
    <2>2. ASSUME NEW x \in Bins, AtMost(flushed, x), AtMost(file, x)
          PROVE  AtMost(flushed', x)
        BY <1>a, <2>1, <2>2, LargerIsJoin
    <2>3. AtMost(flushed', Larger(sram, file))
        BY <1>a, <1>c, <2>2, LargerIsJoin DEF SafeCopies
    <2>4. Larger(sram, sw) \in Bins
        BY <1>a, LargerIsJoin
    <2> QED BY <1>9, <1>a, <1>c, <2>1, <2>2, <2>3, <2>4 DEF Flush, SafeCopies
<1>10. CASE Kill
    BY <1>10, <1>c DEF Kill, counts, SafeCopies
<1>11. CASE PowerLoss
    <2>1. AtMost(flushed, Larger(sram, file'))
        BY <1>11, <1>a, <1>c, LargerAbove DEF PowerLoss, SafeCopies
    <2> QED BY <1>11, <2>1 DEF PowerLoss, SafeCopies
<1>12. CASE GaugeReset
    <2>1. AtMost(flushed, Larger(sram', flushed))
        BY <1>a, LargerIsJoin
    <2> QED BY <1>12, <2>1 DEF GaugeReset, SafeCopies
<1>13. CASE UNCHANGED vars
    BY <1>13, <1>c DEF vars, counts, SafeCopies
<1> QED
    BY <1>1, <1>2, <1>3, <1>4, <1>5, <1>6, <1>7, <1>8, <1>9, <1>10, <1>11, <1>12, <1>13
       DEF Next, Service

LEMMA CopiesCorrect == Spec => []CopiesInv
<1>1. CopiesInv /\ TypeOK' /\ [Next]_vars => CopiesInv'
    BY CopiesNext
<1> QED BY <1>1, CopiesInit, TypeOKHolds, PTL DEF Spec

(* What once was on the medium is never lost, wherever the service is      *)
(* killed, the power fails or the gauge is reset, until an access fails,   *)
(* and from the next start with the file on the medium on.                 *)
THEOREM FlushedSurvivesHolds == Spec => []FlushedSurvives
<1>1. CopiesInv => FlushedSurvives
    BY DEF CopiesInv, SafeCopies, FlushedSurvives
<1> QED BY <1>1, CopiesCorrect, PTL

(* The file that a save writes counts at least what the medium did at any  *)
(* time since the last start after a failed access, if none failed since.  *)
THEOREM StoredNeverGoesBackHolds == Spec => StoredNeverGoesBack
<1>1. ASSUME CopiesInv, CopiesInv', [Next]_vars
      PROVE  [pc = "writeStorage" /\ pc' = "idle" /\ ~failed' => AtMost(flushed, file')]_vars
    <2> SUFFICES ASSUME pc = "writeStorage", pc' = "idle", ~failed', ~UNCHANGED vars
                 PROVE  AtMost(flushed, file')
        OBVIOUS
    <2>1. WriteStorage
        BY <1>1 DEF Next, Service, Start, ReadFromStorage, ReadFromSRAM, SaveToSRAM, SaveToStorage,
                    BatteryUpdate, CountCycle, Flush, Kill, PowerLoss, GaugeReset
    <2>2. file' = sw /\ ~failed
        BY <2>1 DEF WriteStorage, Fails
    <2> QED BY <1>1, <2>1, <2>2 DEF WriteStorage, CopiesInv, SafeCopies
<1> QED BY <1>1, CopiesCorrect, PTL DEF Spec, StoredNeverGoesBack
=============================================================================
