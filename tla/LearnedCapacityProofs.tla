----------------------- MODULE LearnedCapacityProofs -----------------------
(***************************************************************************)
(* Theorems about LearnedCapacity, for any design capacity, any faults and *)
(* any number of them.                                                     *)
(***************************************************************************)
EXTENDS LearnedCapacity, TLAPS

(* What the service holds while it runs, against the number it stored.     *)
Holding == pc \notin {"off", "readStorage"}

StoredInv ==
    /\ TypeOK
    /\ stored # 0 /\ file # Empty => file = stored
    /\ stored # 0 /\ Holding => sw # 0 /\ sw <= stored
    /\ ~Holding /\ file = Empty => stored = 0
    /\ pc \in {"saveSRAM", "saveStorage", "writeStorage"} => sw # 0

LEMMA StoredInit == Init => StoredInv
BY LearnedCapacityAssumption DEF Init, StoredInv, TypeOK, Capacities, Empty, Holding

(* A fault is counted; without one the count stays.                        *)
LEMMA FaultCounted ==
    ASSUME faults \in 0 .. MaxFaults, NEW kind, Fault(kind)
    PROVE  faults' \in 0 .. MaxFaults
BY LearnedCapacityAssumption DEF Fault

(* The three outcomes of a merge: a smaller capacity is to be stored, a    *)
(* larger one is to be overwritten in the gauge, or nothing is to do.      *)
LEMMA MergeKeeps ==
    ASSUME NEW read \in Capacities, sw \in Capacities,
           pc = "readSRAM", stored # 0 => sw # 0 /\ sw <= stored,
           stored \in Capacities,
           UpdateAndSave(read)
    PROVE  /\ sw' \in Capacities /\ hw' \in Capacities
           /\ pc' \in {"saveSRAM", "saveStorage", "idle"}
           /\ pc' = "saveSRAM" => hw' # 0
           /\ pc' # "idle" => sw' # 0
           /\ stored # 0 => sw' # 0 /\ sw' <= stored
BY LearnedCapacityAssumption DEF UpdateAndSave, Capacities

LEMMA StoredNext == StoredInv /\ [Next]_vars => StoredInv'
<1> SUFFICES ASSUME StoredInv, [Next]_vars PROVE StoredInv'
    OBVIOUS
<1> USE LearnedCapacityAssumption
<1>0. TypeOK
    BY DEF StoredInv
<1>1. CASE Start
    BY <1>1 DEF Start, StoredInv, TypeOK, Capacities, Empty, Holding
<1>2. CASE ReadFromStorage
    <2>1. faults' \in 0 .. MaxFaults
        BY <1>0, <1>2, FaultCounted DEF ReadFromStorage, TypeOK
    <2> QED BY <1>2, <2>1 DEF ReadFromStorage, StoredInv, TypeOK, Capacities, Empty, Holding
<1>3. CASE ReadFromSRAM
    <2>1. faults' \in 0 .. MaxFaults
        BY <1>0, <1>3, FaultCounted DEF ReadFromSRAM, TypeOK
    <2>2. /\ sw' \in Capacities /\ hw' \in Capacities
          /\ pc' \in {"saveSRAM", "saveStorage", "idle"}
          /\ pc' = "saveSRAM" => hw' # 0
          /\ pc' # "idle" => sw' # 0
          /\ stored # 0 => sw' # 0 /\ sw' <= stored
        BY <1>3, MergeKeeps DEF ReadFromSRAM, StoredInv, TypeOK, Holding
    <2> QED BY <1>3, <2>1, <2>2 DEF ReadFromSRAM, StoredInv, TypeOK, Capacities, Empty, Holding
<1>4. CASE SaveToSRAM
    <2>1. faults' \in 0 .. MaxFaults
        BY <1>0, <1>4, FaultCounted DEF SaveToSRAM, TypeOK
    <2> QED BY <1>4, <2>1 DEF SaveToSRAM, StoredInv, TypeOK, Capacities, Empty, Holding
<1>5. CASE SaveToStorage
    <2>1. faults' \in 0 .. MaxFaults
        BY <1>0, <1>5, FaultCounted DEF SaveToStorage, TypeOK
    <2> QED BY <1>5, <2>1 DEF SaveToStorage, StoredInv, TypeOK, Capacities, Empty, Holding
<1>6. CASE WriteStorage
    <2>1. faults' \in 0 .. MaxFaults
        BY <1>0, <1>6, FaultCounted DEF WriteStorage, TypeOK
    <2> QED BY <1>6, <2>1 DEF WriteStorage, StoredInv, TypeOK, Capacities, Empty, Holding
<1>7. CASE BatteryUpdate
    BY <1>7 DEF BatteryUpdate, StoredInv, TypeOK, Capacities, Empty, Holding
<1>8. CASE \E capacity \in 1 .. MaxCapacity : Learn(capacity)
    BY <1>8 DEF Learn, StoredInv, TypeOK, Capacities, Empty, Holding
<1>9. CASE Flush
    BY <1>9 DEF Flush, StoredInv, TypeOK, Capacities, Empty, Holding
<1>10. CASE Kill \/ PowerLoss \/ GaugeReset
    <2>1. faults' \in 0 .. MaxFaults
        BY <1>0, <1>10, FaultCounted DEF Kill, PowerLoss, GaugeReset, TypeOK
    <2>2. ServiceLost /\ {file', media'} \subseteq {file, media, Empty} /\ gauge' \in {gauge, 0, MaxCapacity}
        BY <1>10 DEF Kill, PowerLoss, GaugeReset, FileLost
    <2> QED BY <2>1, <2>2 DEF ServiceLost, StoredInv, TypeOK, Capacities, Empty, Holding
<1>11. CASE UNCHANGED vars
    BY <1>11 DEF vars, StoredInv, TypeOK, Capacities, Empty, Holding
<1> QED
    BY <1>1, <1>2, <1>3, <1>4, <1>5, <1>6, <1>7, <1>8, <1>9, <1>10, <1>11 DEF Next, Service

LEMMA StoredCorrect == Spec => []StoredInv
BY StoredInit, StoredNext, PTL DEF Spec

(* The types: in particular a capacity of 0, "no value", is never written  *)
(* to the file or to the gauge.                                            *)
THEOREM TypeOKHolds == Spec => []TypeOK
<1>1. StoredInv => TypeOK
    BY DEF StoredInv
<1> QED BY <1>1, StoredCorrect, PTL

(* The stored capacity only goes down until it is forgotten, or until the  *)
(* power is lost before the file is written back.  A merge starts from a   *)
(* sw_cap_ that is at most the stored number, because the file, if it has  *)
(* a number, has that one, and the service read it.                        *)
THEOREM StoredOnlyShrinksHolds == Spec => StoredOnlyShrinks
<1>1. ASSUME StoredInv, [Next]_vars
      PROVE  [stored # 0 /\ stored' > stored => file # media /\ FileLost]_vars
    <2> SUFFICES ASSUME ~UNCHANGED vars, stored # 0
                 PROVE  stored' = stored \/ stored' < stored \/ (file # media /\ FileLost)
        <3>1. stored \in Int /\ stored' \in Int
            BY <1>1, StoredNext, LearnedCapacityAssumption DEF StoredInv, TypeOK, Capacities
        <3> QED BY <3>1
    <2>1. CASE ReadFromStorage
        BY <1>1, <2>1 DEF ReadFromStorage, StoredInv, TypeOK, Capacities, Empty, Holding
    <2>2. CASE WriteStorage
        BY <1>1, <2>2 DEF WriteStorage, StoredInv, TypeOK, Capacities, Empty, Holding
    <2>3. CASE Kill
        BY <1>1, <2>3 DEF Kill, ServiceLost, StoredInv, TypeOK, Capacities
    <2>4. CASE PowerLoss \/ GaugeReset
        BY <1>1, <2>4 DEF PowerLoss, GaugeReset, FileLost, ServiceLost, StoredInv, TypeOK, Capacities
    <2>5. CASE \/ Start \/ ReadFromSRAM \/ SaveToSRAM \/ SaveToStorage \/ BatteryUpdate \/ Flush
               \/ \E capacity \in 1 .. MaxCapacity : Learn(capacity)
        BY <2>5 DEF Start, ReadFromSRAM, SaveToSRAM, SaveToStorage, BatteryUpdate, Flush, Learn
    <2> QED BY <1>1, <2>1, <2>2, <2>3, <2>4, <2>5 DEF Next, Service
<1> QED BY <1>1, StoredCorrect, PTL DEF Spec, StoredOnlyShrinks
=============================================================================
