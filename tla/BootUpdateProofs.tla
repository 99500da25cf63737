-------------------------- MODULE BootUpdateProofs --------------------------
(***************************************************************************)
(* Safety of the failsafe update, for every set of LUNs and every table:   *)
(* types; what IInv gives; what a stage that is reported as ready says of  *)
(* every LUN it visited, for every fault and however writes reach the      *)
(* medium; LUNs without a backup; the table a device boots from.           *)
(***************************************************************************)
EXTENDS BootUpdateInv, GptTableProofs

-----------------------------------------------------------------------------
(* A write replaces one table of one LUN and nothing else.                 *)
LEMMA WriteEffect ==
    ASSUME TypeOK,
           NEW l \in Luns, NEW which \in {"prim", "sec"}, NEW table \in TableType,
           Write(l, which, table)
    PROVE  /\ disk' \in [Luns -> GptType] /\ media' \in [Luns -> GptType]
           /\ \A k \in Luns, w \in {"prim", "sec"} :
                 /\ disk'[k][w] = IF k = l /\ w = which THEN table ELSE disk[k][w]
                 /\ media'[k][w] = IF k = l /\ w = which /\ ~WriteBack
                                   THEN table ELSE media[k][w]
  BY DEF TypeOK, GptType, Write

(* The part of TypeInv that speaks of the tables alone.                    *)
TablesTyped ==
    /\ disk \in [Luns -> GptType] /\ media \in [Luns -> GptType]
    /\ \A l \in Luns : PrimaryArrayKept(disk[l], l) /\ PrimaryArrayKept(media[l], l)

LEMMA ReplaceTable ==
    ASSUME NEW g \in [Luns -> GptType], \A k \in Luns : PrimaryArrayKept(g[k], k),
           NEW l \in Luns, NEW which \in {"prim", "sec"}, NEW table \in TableType,
           which = "prim" => table.crc = FactoryRows[l] /\ table.arr \in {FactoryRows[l], Torn}
    PROVE  /\ [g EXCEPT ![l][which] = table] \in [Luns -> GptType]
           /\ \A k \in Luns : PrimaryArrayKept([g EXCEPT ![l][which] = table][k], k)
  BY DEF GptType, PrimaryArrayKept

(* A write keeps the tables typed when it leaves the primary array alone.  *)
LEMMA WriteTyped ==
    ASSUME TypeInv, NEW l \in Luns, NEW which \in {"prim", "sec"}, NEW table \in TableType,
           which = "prim" => table.crc = disk[l].prim.crc /\ table.arr = disk[l].prim.arr,
           Write(l, which, table)
    PROVE  /\ TablesTyped'
           /\ \A k \in Luns : disk'[k].prim.arr = disk[k].prim.arr
  <1>1. TypeOK
    BY DEF TypeInv
  <1>2. /\ disk' \in [Luns -> GptType] /\ media' \in [Luns -> GptType]
        /\ \A k \in Luns : disk'[k].prim = IF k = l /\ which = "prim" THEN table ELSE disk[k].prim
        /\ \A k \in Luns : media'[k].prim = IF k = l /\ which = "prim" /\ ~WriteBack
                                           THEN table ELSE media[k].prim
    BY <1>1, WriteEffect
  <1> QED BY <1>2 DEF TypeInv, TablesTyped, PrimaryArrayKept

(* Every table prepare_partitions writes is one.                           *)
LEMMA NewRowsTyped ==
    ASSUME NEW l \in Luns, disk[l].prim.arr = FactoryRows[l]
    PROVE  NewRows(l) \in Arrays
  BY DEF NewRows, Arrays

LEMMA TypeInvInit == Init => TypeInv
  <1> SUFFICES ASSUME Init PROVE TypeInv
    OBVIOUS
  <1>1. \A l \in Luns : FactoryGpt(l) \in GptType /\ PrimaryArrayKept(FactoryGpt(l), l)
    BY DEF FactoryGpt, GptType, TableType, States, Arrays, PrimaryArrayKept
  <1>2. disk \in [Luns -> GptType] /\ \A l \in Luns : PrimaryArrayKept(disk[l], l)
    BY <1>1 DEF Init
  <1>3. media = disk
    BY DEF Init
  <1> QED BY <1>2, <1>3 DEF Init, TypeInv, TypeOK, Labels, Stages, Copies

(* A call lists LUNs that hold a backup, whichever links are lost; all of  *)
(* them, if none is.                                                       *)
LEMMA ListsAreLuns ==
    \A list \in LunLists : list \subseteq UpdateLuns /\ (LinksResolve => list = UpdateLuns)
  BY DEF LunLists, LinksResolve

LEMMA ListedLuns ==
    ASSUME TypeInv
    PROVE  /\ todo \subseteq lunList /\ lunList \subseteq UpdateLuns
           /\ lunList \subseteq Luns /\ todo \subseteq Luns
  BY DEF TypeInv, TypeOK, UpdateLuns

LEMMA TypeInvNext ==
    ASSUME TypeInv, [Next]_vars
    PROVE  TypeInv'
  <1> USE DEF TypeInv
  <1>0. /\ TypeOK /\ TablesTyped /\ UpdateLuns \subseteq Luns
    BY DEF TypeOK, TablesTyped, UpdateLuns
  (* A step that changes no table.                                         *)
  <1>1. ASSUME UNCHANGED tables, TypeOK', pc' \notin {"idle", "loop"} => cur' \in Luns,
               pc' = "chainRows" => pc = "chainRows" /\ cur' = cur
        PROVE  TypeInv'
    BY <1>1 DEF tables, TypeOK
  (* A step of a call that writes one table.                               *)
  <1>2. ASSUME NEW which \in {"prim", "sec"}, NEW table \in TableType, cur \in Luns,
               which = "prim" => table.crc = disk[cur].prim.crc /\ table.arr = disk[cur].prim.arr,
               Write(cur, which, table),
               UNCHANGED <<bootLun, torn, exposed, grant>>,
               pc' \in Labels, pc' = "chainRows" => disk[cur].prim.arr = FactoryRows[cur],
               UNCHANGED <<stage, lunList, todo, cur, isError>>, r' \in {0, -1}
        PROVE  TypeInv'
    <2>1. TablesTyped' /\ \A k \in Luns : disk'[k].prim.arr = disk[k].prim.arr
      BY <1>2, WriteTyped
    <2> QED BY <1>2, <2>1 DEF TypeOK, TablesTyped
  <1>3. CASE UNCHANGED vars
    BY <1>3, <1>1 DEF vars, tables, TypeOK
  <1>4. ASSUME NEW s \in Stages, Call(s) PROVE TypeInv'
    BY <1>0, <1>4, ListsAreLuns DEF Call, tables, TypeOK, Labels
  <1>5. ASSUME NEW l \in Luns, Open(l) \/ OpenFails(l) PROVE TypeInv'
    BY <1>0, <1>5 DEF Open, OpenFails, tables, TypeOK, Labels
  <1>6. CASE CheckState
    <2>1. FirstWrite(stage) \in {"xbl", "fixPrim", "chainHeader"}
      BY DEF FirstWrite
    <2> QED BY <1>0, <1>6, <2>1 DEF CheckState, CheckRefused, CheckAlreadySet, CheckReady,
               Goto, ExitWith, tables, TypeOK, Labels
  <1>7. CASE SwitchXbl
    BY <1>0, <1>7 DEF SwitchXbl, Goto, tables, TypeOK, Labels
  <1>8. CASE ChainArrayBad \/ ChainNoBackup
    BY <1>0, <1>8 DEF ChainArrayBad, ChainNoBackup, ExitWith, tables, TypeOK, Labels
  <1>9. CASE ChainHeader
    <2>1. cur \in Luns /\ disk[cur].prim.arr = FactoryRows[cur]
      BY <1>9 DEF ChainHeader, PrimaryArrayKept
    <2>2. [disk[cur].sec EXCEPT !.crc = NewRows(cur)] \in TableType
      BY <2>1, NewRowsTyped DEF TypeOK, GptType, TableType
    <2> QED BY <1>2, <1>9, <2>1, <2>2 DEF ChainHeader, Goto, Labels, TypeOK
  <1>10. CASE ChainRows
    <2>1. cur \in Luns /\ disk[cur].prim.arr = FactoryRows[cur]
      BY <1>10 DEF ChainRows
    <2>2. [disk[cur].sec EXCEPT !.arr = NewRows(cur)] \in TableType
      BY <2>1, NewRowsTyped DEF TypeOK, GptType, TableType
    <2>3. AfterChain \in Labels /\ AfterChain # "chainRows"
      BY DEF AfterChain, Labels
    <2> QED BY <1>2, <1>10, <2>1, <2>2, <2>3 DEF ChainRows, Goto, TypeOK
  (* An array that is written in part.                                     *)
  <1>11. cur \in Luns => [disk[cur].sec EXCEPT !.arr = Torn] \in TableType
    BY DEF TypeOK, GptType, TableType
  <1>12. CASE ChainRowsShort
    <2>3. AfterChain \in Labels /\ AfterChain # "chainRows"
      BY DEF AfterChain, Labels
    <2> QED BY <1>2, <1>11, <1>12, <2>3 DEF ChainRowsShort, Goto, TypeOK
  (* gpt_set_state.                                                        *)
  <1>13. ASSUME NEW which \in {"prim", "sec"}, NEW st \in States, cur \in Luns,
                SetState(cur, which, st), Goto(pc'), pc' \in {"exit", "corruptSec"},
                UNCHANGED <<bootLun, grant, torn, exposed>>
         PROVE  TypeInv'
    <2>0. disk[cur][which] \in TableType
      BY <1>13 DEF TypeOK, GptType
    <2>1. [disk[cur][which] EXCEPT !.st = st] \in TableType
      BY <2>0 DEF TableType
    <2>2. /\ [disk[cur][which] EXCEPT !.st = st].crc = disk[cur][which].crc
          /\ [disk[cur][which] EXCEPT !.st = st].arr = disk[cur][which].arr
      BY <2>0 DEF TableType
    <2>3. which = "prim" => disk[cur][which] = disk[cur].prim
      OBVIOUS
    <2> QED BY <1>2, <1>13, <2>1, <2>2, <2>3 DEF SetState, Goto, Labels, TypeOK
  <1>14. CASE SetStateStep
    BY <1>13, <1>14 DEF SetStateStep, CorruptPrimary, FixPrimary, CorruptSecondary,
                        FixSecondary, States, Goto
  <1>15. CASE IoError
    <2>1. CASE UNCHANGED tables
      BY <1>0, <1>15, <2>1 DEF IoError, ExitWith, tables, TypeOK, Labels
    <2>2. CASE Write(cur, "sec", [disk[cur].sec EXCEPT !.arr = Torn])
      BY <1>2, <1>11, <1>15, <2>2 DEF IoError, ExitWith, TypeOK, Labels
    <2> QED BY <1>15, <2>1, <2>2 DEF IoError
  <1>16. CASE Exit
    BY <1>0, <1>16 DEF Exit, TypeOK, TablesTyped, Labels
  <1>17. CASE Return
    BY <1>0, <1>17 DEF Return, Granted, tables, TypeOK, Labels, Copies, Stages
  <1>18. ASSUME NEW t \in Targets, BeginWrite(t) \/ EndWrite(t) PROVE TypeInv'
    BY <1>0, <1>18 DEF BeginWrite, EndWrite, frame, tables, TypeOK
  <1>19. ASSUME NEW l \in Luns, NEW which \in {"prim", "sec"}, Flush(l, which) PROVE TypeInv'
    <2>1. media[l][which] \in TableType /\ disk[l][which] \in TableType
      BY DEF TypeOK, GptType
    <2>2. PICK table \in TableType :
             /\ media' = [media EXCEPT ![l][which] = table]
             /\ table.crc \in {media[l][which].crc, disk[l][which].crc}
             /\ table.arr \in {media[l][which].arr, disk[l][which].arr, Torn}
      BY <1>19, <2>1 DEF Flush, TableType
    <2>3. which = "prim" => table.crc = FactoryRows[l] /\ table.arr \in {FactoryRows[l], Torn}
      BY <1>0, <2>2 DEF TablesTyped, PrimaryArrayKept
    <2>4. /\ media' \in [Luns -> GptType] /\ \A k \in Luns : PrimaryArrayKept(media'[k], k)
      BY <1>0, <2>2, <2>3, ReplaceTable DEF TablesTyped
    <2> QED BY <1>0, <1>19, <2>4 DEF Flush, frame, TypeOK
  <1>20. ASSUME NEW l \in Luns, NEW which \in {"prim", "sec"}, Decay(l, which) PROVE TypeInv'
    <2>1. PICK table \in {[disk[l][which] EXCEPT !.st = "BAD_CRC"],
                           [disk[l][which] EXCEPT !.arr = Torn]} :
             /\ disk' = [disk EXCEPT ![l][which] = table]
             /\ media' = [media EXCEPT ![l][which] = table]
      BY <1>20 DEF Decay
    <2>2. table \in TableType /\ table.crc = disk[l][which].crc
                              /\ table.arr \in {disk[l][which].arr, Torn}
      BY DEF TypeOK, GptType, TableType, States
    <2>3. TablesTyped'
      BY <1>0, <2>1, <2>2 DEF TablesTyped, GptType, PrimaryArrayKept
    <2> QED BY <1>0, <1>20, <2>3 DEF Decay, frame, TypeOK, TablesTyped
  <1>21. ASSUME TablesTyped', Interrupted PROVE TypeInv'
    BY <1>0, <1>21 DEF Interrupted, TypeOK, TablesTyped, Labels
  <1>22. CASE Kill
    <2>1. CASE UNCHANGED tables
      BY <1>0, <1>21, <1>22, <2>1 DEF Kill, tables, TablesTyped
    <2>2. CASE pc = "chainRows" /\ Write(cur, "sec", [disk[cur].sec EXCEPT !.arr = Torn])
      BY <1>11, <1>21, <1>22, <2>2, WriteTyped DEF Kill
    <2> QED BY <1>22, <2>1, <2>2 DEF Kill
  <1>23. CASE PowerLoss
    <2>1. CASE media' = media
      BY <1>0, <1>21, <1>23, <2>1 DEF PowerLoss, TablesTyped
    <2>2. CASE /\ pc = "chainRows"
               /\ media' = [media EXCEPT ![cur]["sec"] = [@ EXCEPT !.arr = Torn]]
      <3>1. cur \in Luns /\ [media[cur].sec EXCEPT !.arr = Torn] \in TableType
        BY <2>2 DEF TypeOK, GptType, TableType
      <3>2. media' = [media EXCEPT ![cur]["sec"] = [media[cur].sec EXCEPT !.arr = Torn]]
        BY <1>0, <2>2 DEF TablesTyped, GptType
      <3> DEFINE table == [media[cur].sec EXCEPT !.arr = Torn]
      <3> HIDE DEF table
      <3>3. /\ [media EXCEPT ![cur]["sec"] = table] \in [Luns -> GptType]
            /\ \A k \in Luns : PrimaryArrayKept([media EXCEPT ![cur]["sec"] = table][k], k)
        <4>1. table \in TableType /\ cur \in Luns
          BY <3>1 DEF table
        <4> QED BY <1>0, <4>1 DEF TablesTyped, GptType, PrimaryArrayKept
      <3>4. /\ media' \in [Luns -> GptType] /\ \A k \in Luns : PrimaryArrayKept(media'[k], k)
        BY <3>2, <3>3 DEF table
      <3> QED BY <1>21, <1>23, <3>4 DEF PowerLoss, TablesTyped
    <2> QED BY <1>23, <2>1, <2>2 DEF PowerLoss
  <1> HIDE DEF TypeInv
  <1> QED
    BY <1>3, <1>4, <1>5, <1>6, <1>7, <1>8, <1>9, <1>10, <1>12, <1>14, <1>15, <1>16, <1>17,
       <1>18, <1>19, <1>20, <1>22, <1>23
    DEF Next, CallStep, ChainStep, Environment

(* The tables of a LUN only ever hold the shipped array, the swapped one   *)
(* or a torn one, whatever the faults and however writes reach the medium: *)
(* no step of the update invents a partition entry.                        *)
THEOREM TypeCorrect == Spec => []TypeOK
  <1>1. Init => TypeInv
    BY TypeInvInit
  <1>2. TypeInv /\ [Next]_vars => TypeInv'
    BY TypeInvNext
  <1>3. TypeInv => TypeOK
    BY DEF TypeInv
  <1> QED BY <1>1, <1>2, <1>3, PTL DEF Spec

-----------------------------------------------------------------------------
(* A LUN with a target is visited by every stage, and its swap does find a *)
(* backup.                                                                 *)
LEMMA TargetsVisited ==
    ASSUME OnlyXblSkipped, NEW l \in Luns, NEW t \in LunTargets(l)
    PROVE  /\ l \in UpdateLuns
           /\ \E p \in SwappedNames(FactoryRows[l]) : t = <<l, p>>
  <1>1. PICK p \in SwapNames : /\ t = <<l, p>> /\ Backed(FactoryRows[l], p)
                               /\ ~(IsUfs /\ p = Xbl)
    BY DEF LunTargets
  <1>2. ~Skipped(p)
    BY <1>1 DEF OnlyXblSkipped, Skipped
  <1>3. p \in SwappedNames(FactoryRows[l])
    BY <1>1, <1>2 DEF SwappedNames
  <1>4. PICK i, j \in DOMAIN FactoryRows[l] : IsPair(FactoryRows[l], p, i, j)
    BY <1>1 DEF Backed
  <1>5. FactoryRows[l][j].ptn = p /\ FactoryRows[l][j].copy = "bak"
    BY <1>4, BootUpdateAssumption DEF IsPair, IsSeek, IsFactoryTable
  <1>6. l \in UpdateLuns
    BY <1>2, <1>5 DEF UpdateLuns
  <1> QED BY <1>1, <1>3, <1>6

LEMMA TargetIsNotXbl ==
    ASSUME NEW l \in Luns, NEW t \in LunTargets(l)
    PROVE  t # XblTarget /\ t[1] = l
  BY BootUpdateAssumption DEF LunTargets, XblTarget

LEMMA TargetNamesLun ==
    ASSUME NEW l \in Luns, NEW k \in Luns, NEW t \in LunTargets(l), t \in LunTargets(k)
    PROVE  l = k
  BY TargetIsNotXbl

(* What the boot loader takes of a LUN, by the table it reads.  The table  *)
(* as shipped selects the main copies, the swapped one the backups.        *)
LEMMA FactoryBootsMain ==
    ASSUME OnlyXblSkipped, NEW l \in Luns, NEW t \in LunTargets(l),
           NEW which \in {"prim", "sec"}, BootsFrom(media[l], which),
           media[l][which].arr = FactoryRows[l]
    PROVE  Boots(t, "main") /\ ~Boots(t, "bak")
  <1> DEFINE F == FactoryRows[l]
  <1>1. PICK p \in SwappedNames(F) : t = <<l, p>>
    BY TargetsVisited
  <1>2. IsFactoryTable(F) /\ F \in Seq(Entries)
    BY BootUpdateAssumption DEF IsFactoryTable
  <1>3. Loads(F, p, "main")
    BY <1>2, FactoryLoadsMain DEF SwappedNames
  <1>4. ~Loads(F, p, "bak")
    BY <1>2, <1>3, SeekUnique, 1 \in Nat \ {0} DEF Loads
  <1>5. \A w \in {"prim", "sec"} : BootsFrom(media[l], w) => w = which
    BY DEF BootsFrom
  <1>6. t # XblTarget /\ t[1] = l /\ t[2] = p
    BY <1>1, TargetIsNotXbl
  <1> HIDE DEF F
  <1> QED BY <1>3, <1>4, <1>5, <1>6 DEF Boots, F

LEMMA SwappedBootsBackup ==
    ASSUME OnlyXblSkipped, NEW l \in Luns, NEW t \in LunTargets(l),
           NEW which \in {"prim", "sec"}, BootsFrom(media[l], which),
           media[l][which].arr = BootChainSwap(FactoryRows[l])
    PROVE  Boots(t, "bak") /\ ~Boots(t, "main")
  <1> DEFINE B == BootChainSwap(FactoryRows[l])
  <1>1. PICK p \in SwappedNames(FactoryRows[l]) : t = <<l, p>>
    BY TargetsVisited
  <1>2. IsFactoryTable(FactoryRows[l]) /\ B \in Seq(Entries)
    BY BootUpdateAssumption, SwapKeepsNames DEF IsFactoryTable
  <1>3. Loads(B, p, "bak")
    BY <1>2, SwapLoadsBackup
  <1>4. ~Loads(B, p, "main")
    BY <1>2, <1>3, SeekUnique, 1 \in Nat \ {0} DEF Loads
  <1>5. \A w \in {"prim", "sec"} : BootsFrom(media[l], w) => w = which
    BY DEF BootsFrom
  <1>6. t # XblTarget /\ t[1] = l /\ t[2] = p
    BY <1>1, TargetIsNotXbl
  <1> HIDE DEF B
  <1> QED BY <1>3, <1>4, <1>5, <1>6 DEF Boots, B

(* The three states of a LUN: its primary table boots; it was corrupted    *)
(* for an update; it went bad.                                             *)
LEMMA LunStates ==
    ASSUME TypeInv, IInv, NEW l \in Luns
    PROVE  \/ /\ disk[l].prim.st = "OK" /\ PrimaryKept(l)
              /\ BootsFrom(media[l], "prim") /\ media[l].prim.arr = FactoryRows[l]
              /\ Intact(l, "main")
           \/ /\ disk[l].prim.st = "BAD_SIGNATURE" /\ disk[l].sec.st = "OK"
              /\ BootsFrom(media[l], "sec") /\ media[l].sec.arr = BootChainSwap(FactoryRows[l])
              /\ Intact(l, "bak")
           \/ /\ disk[l].prim.st # "BAD_SIGNATURE" /\ disk[l].sec.st = "OK"
              /\ BootsFrom(media[l], "sec")
              /\ media[l].sec.arr \in {FactoryRows[l], BootChainSwap(FactoryRows[l])}
              /\ Intact(l, "main") /\ Intact(l, "bak")
  <1>1. /\ media = disk /\ LunInv(l)
        /\ disk[l].prim.crc = FactoryRows[l] /\ disk[l].prim.arr \in {FactoryRows[l], Torn}
        /\ disk[l].prim.st \in {"OK", "BAD_SIGNATURE", "BAD_CRC"}
        /\ Torn # FactoryRows[l]
    BY BootUpdateAssumption DEF IInv, TypeInv, TypeOK, GptType, TableType, States, PrimaryArrayKept
  <1>2. CASE PrimaryKept(l)
    BY <1>1, <1>2 DEF LunInv, PrimaryKept, PrimaryLost, SecondaryTakesOver, SwappedRows, TornImagesUnused, BootsFrom, Valid
  <1>3. CASE ~PrimaryKept(l)
    BY <1>1, <1>3 DEF LunInv, SwappedRows, PrimaryKept, PrimaryLost, BootsFrom, Valid
  <1> QED BY <1>2, <1>3

(* A LUN boots all its targets from the same copies, and these are intact  *)
(* unless they were given up to a lost link.                               *)
LEMMA OneChain ==
    ASSUME OrderedWrites, TypeInv, IInv, NEW l \in Luns
    PROVE  \E c \in Copies : /\ Intact(l, c)
                             /\ \A t \in LunTargets(l), d \in Copies : Boots(t, d) <=> d = c
  BY LunStates, FactoryBootsMain, SwappedBootsBackup DEF Copies, OrderedWrites

(* The invariant gives the properties.                                     *)
LEMMA SafetyFromInv ==
    ASSUME OrderedWrites, TypeInv, IInv
    PROVE  FailsafeTables /\ SafeToWrite /\ NoMixedChain
  <1>0. \A l \in Luns : \A t \in LunTargets(l) : t[1] = l
    BY TargetIsNotXbl
  <1>1. ASSUME NEW l \in Luns, NEW t \in LunTargets(l), l \notin exposed PROVE BootsIntact(t)
    BY <1>1, OneChain DEF BootsIntact, Intact
  <1>2. ASSUME NEW l \in Luns, NEW t \in LunTargets(l), grant # "none", l \in lunList
        PROVE  ~Boots(t, grant)
    <2>1. l \in lunList /\ BackupFound(FactoryRows[l])
      BY <1>2, TargetsVisited DEF BackupFound, OrderedWrites
    <2>2. CASE grant = "main"
      <3>1. disk[l].prim.st = "BAD_SIGNATURE"
        BY <2>1, <2>2 DEF IInv, ProgressInv, Prepared
      <3> QED BY <2>2, <3>1, LunStates, SwappedBootsBackup DEF OrderedWrites
    <2>3. CASE grant = "bak"
      <3>1. disk[l].sec.st = "BAD_SIGNATURE"
        BY <2>1, <2>3 DEF IInv, ProgressInv, Prepared, UPDATE_BACKUP
      <3> QED BY <2>3, <3>1, LunStates, FactoryBootsMain DEF OrderedWrites
    <2>4. grant \in {"main", "bak"}
      BY <1>2 DEF TypeInv, TypeOK, Copies
    <2> QED BY <2>2, <2>3, <2>4
  <1>3. NoMixedChain
    BY OneChain DEF NoMixedChain
  <1> QED BY <1>0, <1>1, <1>2, <1>3 DEF FailsafeTables, SafeToWrite, TableTargets

-----------------------------------------------------------------------------
(* Under OrderedWrites a write is on the medium when it returns.           *)
LEMMA OrderedWrite ==
    ASSUME OrderedWrites, TypeInv, IInv, cur \in Luns, NEW which \in {"prim", "sec"}, NEW table \in TableType,
           Write(cur, which, table)
    PROVE  /\ media' = disk'
           /\ \A k \in Luns : k # cur => disk'[k] = disk[k]
           /\ disk'[cur][which] = table
           /\ \A w \in {"prim", "sec"} : w # which => disk'[cur][w] = disk[cur][w]
  <1>1. media' = disk'
    BY DEF OrderedWrites, Write, IInv
  <1>2. \A k \in Luns : k # cur => disk'[k] = disk[k]
    BY DEF Write, TypeInv, TypeOK
  <1>3. \A w \in {"prim", "sec"} : disk'[cur][w] = IF w = which THEN table ELSE disk[cur][w]
    BY WriteEffect DEF TypeInv
  <1> QED BY <1>1, <1>2, <1>3

LEMMA IInvInit == Init => IInv
  <1> SUFFICES ASSUME Init PROVE IInv
    OBVIOUS
  <1>1. \A l \in Luns : LunInv(l)
    BY DEF Init, FactoryGpt, LunInv, PrimaryKept, PrimaryLost, SecondaryTakesOver, SwappedRows, TornImagesUnused, Intact
  <1> QED BY <1>1 DEF Init, IInv, CallInv, LabelInv, ProgressInv

(* A step between two calls, or one that ends a call.                      *)
LEMMA IInvIdle ==
    ASSUME TypeInv, IInv, pc' = "idle", todo' = {}, grant' = "none", media' = disk',
           \A l \in Luns : LunInv(l)'
    PROVE  IInv'
  BY DEF IInv, CallInv, LabelInv, ProgressInv

(* A step that changes no table and no image keeps the state of the LUNs.  *)
LEMMA LunInvUnchanged ==
    ASSUME IInv, UNCHANGED <<disk, torn, exposed>>
    PROVE  /\ \A l \in Luns : LunInv(l)'
           /\ \A l \in Luns, c \in Copies : Intact(l, c)' = Intact(l, c)
           /\ \A l \in Luns, s \in Stages : Prepared(s, l)' = Prepared(s, l)
  BY DEF IInv, LunInv, PrimaryKept, PrimaryLost, SecondaryTakesOver, SwappedRows, TornImagesUnused, Intact, Prepared

(* A step of a call that writes a table of the current LUN: the rest of    *)
(* the invariant follows from what the step does to that LUN.              *)
LEMMA IInvWrite ==
    ASSUME OrderedWrites, TypeInv, IInv, cur \in Luns, cur \in todo,
           NEW which \in {"prim", "sec"}, NEW table \in TableType,
           Write(cur, which, table),
           pc \notin {"idle", "loop"}, pc' \notin {"idle", "loop"},
           UNCHANGED <<stage, lunList, todo, cur, isError, grant, torn, exposed>>,
           LunInv(cur)', LabelInv',
           pc' = "exit" /\ r' = 0 => Prepared(stage, cur)'
    PROVE  IInv'
  <1>1. media' = disk' /\ \A k \in Luns : k # cur => disk'[k] = disk[k]
    BY OrderedWrite
  <1>2. \A l \in Luns, c \in Copies : Intact(l, c)' = Intact(l, c)
    BY DEF Intact
  <1>3. \A l \in Luns : LunInv(l)'
    BY <1>1 DEF IInv, LunInv, PrimaryKept, PrimaryLost, SecondaryTakesOver, SwappedRows, TornImagesUnused, Intact
  <1>4. CallInv'
    BY <1>2 DEF IInv, CallInv, Copies
  <1>5. \A l \in lunList \ todo : Prepared(stage, l)' = Prepared(stage, l)
    BY <1>1, ListedLuns DEF Prepared
  <1>6. grant' = "none"
    BY DEF IInv, CallInv
  <1>7. ProgressInv'
    BY <1>5, <1>6 DEF IInv, ProgressInv
  <1> QED BY <1>1, <1>3, <1>4, <1>7 DEF IInv

(* A step of a call that writes nothing.                                   *)
LEMMA IInvQuiet ==
    ASSUME TypeInv, IInv, UNCHANGED <<disk, media, stage, lunList, todo, isError, grant, torn, exposed>>,
           pc # "idle", pc' # "idle", cur' \in todo \/ pc' = "loop", LabelInv',
           pc' = "exit" /\ r' = 0 => Prepared(stage, cur')
    PROVE  IInv'
  <1>1. /\ \A l \in Luns : LunInv(l)'
        /\ \A l \in Luns, c \in Copies : Intact(l, c)' = Intact(l, c)
        /\ \A l \in Luns, s \in Stages : Prepared(s, l)' = Prepared(s, l)
    BY LunInvUnchanged
  <1>2. stage \in Stages /\ grant' = "none"
    BY DEF IInv, CallInv
  <1>3. CallInv'
    BY <1>1 DEF IInv, CallInv, Copies
  <1>4. lunList \subseteq Luns /\ todo \subseteq Luns
    BY ListedLuns
  <1>5. pc' = "exit" /\ r' = 0 => Prepared(stage, cur)'
    BY <1>1, <1>2 DEF Prepared
  <1>6. ProgressInv'
    BY <1>1, <1>2, <1>4, <1>5 DEF IInv, ProgressInv
  <1> QED BY <1>1, <1>3, <1>6 DEF IInv

LEMMA IInvNext ==
    ASSUME OrderedWrites, TypeInv, TypeInv', IInv, [Next]_vars
    PROVE  IInv'
  <1>0. /\ cur \in Luns \/ pc \in {"idle", "loop"}
        /\ pc \notin {"idle", "loop"} => cur \in todo /\ cur \in Luns
        /\ pc # "idle" => stage \in Stages /\ grant = "none"
        /\ lunList \subseteq Luns /\ todo \subseteq lunList
    BY ListedLuns DEF TypeInv, IInv, CallInv
  <1>1. CASE UNCHANGED vars
    BY <1>1 DEF vars, IInv, LunInv, PrimaryKept, PrimaryLost, SecondaryTakesOver, SwappedRows, TornImagesUnused, Intact,
       CallInv, LabelInv, Headers, NewRows, ProgressInv, Prepared
  <1>2. ASSUME NEW s \in Stages, Call(s) PROVE IInv'
    <2>1. /\ \A l \in Luns : LunInv(l)'
          /\ \A l \in Luns, c \in Copies : Intact(l, c)' = Intact(l, c)
      BY <1>2, LunInvUnchanged DEF Call, tables
    <2>2. /\ s = UPDATE_BACKUP => \A l \in Luns : Intact(l, "main")
          /\ s = UPDATE_FINALIZE => \A l \in Luns : Intact(l, "bak")
      BY <1>2 DEF Call, Intact, Targets, TableTargets
    <2>3. CallInv'
      BY <1>2, <2>1, <2>2 DEF Call, CallInv, Copies
    <2> QED BY <1>2, <2>1, <2>3 DEF Call, tables, IInv, LabelInv, ProgressInv
  <1>3. ASSUME NEW l \in Luns, Open(l) PROVE IInv'
    BY <1>3, IInvQuiet DEF Open, tables, LabelInv
  <1>4. ASSUME NEW l \in Luns, OpenFails(l) PROVE IInv'
    <2>1. /\ \A k \in Luns : LunInv(k)'
          /\ \A k \in Luns, c \in Copies : Intact(k, c)' = Intact(k, c)
      BY <1>4, LunInvUnchanged DEF OpenFails, tables
    <2>2. CallInv'
      BY <1>4, <2>1 DEF OpenFails, IInv, CallInv, Copies
    <2> QED BY <1>0, <1>4, <2>1, <2>2 DEF OpenFails, tables, IInv, LabelInv, ProgressInv
  <1>5. CASE CheckRefused
    BY <1>0, <1>5, IInvQuiet DEF CheckRefused, ExitWith, tables, LabelInv
  <1>6. CASE CheckAlreadySet
    <2>1. Prepared(stage, cur)
      BY <1>0, <1>6 DEF CheckAlreadySet, InternalStage, Prepared, Stages,
         UPDATE_MAIN, UPDATE_BACKUP, UPDATE_FINALIZE, TypeInv, TypeOK, GptType, TableType, States
    <2> QED BY <1>0, <1>6, <2>1, IInvQuiet DEF CheckAlreadySet, ExitWith, tables, LabelInv
  <1>7. CASE CheckReady
    <2>1. /\ stage = UPDATE_MAIN => Headers("OK", "OK")
          /\ stage = UPDATE_BACKUP => Headers("BAD_SIGNATURE", "OK")
          /\ stage = UPDATE_FINALIZE => Headers("OK", "BAD_SIGNATURE")
      BY <1>0, <1>7 DEF CheckReady, InternalStage, Headers, Stages,
         UPDATE_MAIN, UPDATE_BACKUP, UPDATE_FINALIZE, TypeInv, TypeOK, GptType, TableType, States
    <2>2. LabelInv'
      BY <1>0, <1>7, <2>1 DEF CheckReady, Goto, FirstWrite, tables, LabelInv, Headers, Stages,
         UPDATE_MAIN, UPDATE_BACKUP, UPDATE_FINALIZE
    <2>3. pc' \in {"xbl", "fixPrim", "chainHeader"}
      BY <1>7 DEF CheckReady, Goto, FirstWrite
    <2> QED BY <1>0, <1>7, <2>2, <2>3, IInvQuiet DEF CheckReady, Goto, tables
  <1>8. CASE SwitchXbl
    <2>1. LabelInv'
      BY <1>8 DEF SwitchXbl, Goto, tables, IInv, LabelInv, Headers, UPDATE_MAIN, UPDATE_BACKUP
    <2> QED BY <1>0, <1>8, <2>1, IInvQuiet DEF SwitchXbl, Goto, tables
  <1>9. CASE ChainArrayBad
    BY <1>0, <1>9, IInvQuiet DEF ChainArrayBad, ExitWith, tables, LabelInv
  <1>10. CASE ChainNoBackup
    <2>1. Prepared(stage, cur)
      BY <1>0, <1>10 DEF ChainNoBackup, Prepared, TypeInv, PrimaryArrayKept,
         UPDATE_MAIN, UPDATE_BACKUP
    <2> QED BY <1>0, <1>10, <2>1, IInvQuiet DEF ChainNoBackup, ExitWith, tables, LabelInv
  (* The tables of the current LUN, before and after a write.              *)
  <1>11. cur \in Luns =>
            /\ LunInv(cur) /\ disk[cur].prim \in TableType /\ disk[cur].sec \in TableType
            /\ disk[cur].prim.crc = FactoryRows[cur] /\ Torn # FactoryRows[cur]
            /\ disk[cur].prim.arr = FactoryRows[cur] =>
                  /\ NewRows(cur) \in Arrays
                  /\ NewRows(cur) \in {FactoryRows[cur], BootChainSwap(FactoryRows[cur])}
    BY NewRowsTyped, BootUpdateAssumption
    DEF IInv, TypeInv, TypeOK, GptType, PrimaryArrayKept, NewRows
  <1>12. CASE ChainHeader
    <2> DEFINE table == [disk[cur].sec EXCEPT !.crc = NewRows(cur)]
    <2>0. disk[cur].prim.arr = FactoryRows[cur]
      BY <1>0, <1>11, <1>12 DEF ChainHeader
    <2>1. /\ table \in TableType /\ table.st = disk[cur].sec.st /\ table.arr = disk[cur].sec.arr
          /\ table.crc = NewRows(cur) /\ pc = "chainHeader" /\ cur \in Luns /\ cur \in todo
      BY <1>0, <1>11, <1>12, <2>0 DEF ChainHeader, TableType
    <2>2. Write(cur, "sec", table)
      BY <1>12 DEF ChainHeader
    <2> HIDE DEF table
    <2>3. disk'[cur].sec = table /\ disk'[cur].prim = disk[cur].prim
      BY <2>1, <2>2, OrderedWrite
    <2>4. disk[cur].prim.st = "OK"
      BY <2>1 DEF IInv, LabelInv, Headers
    <2>5. LunInv(cur)'
      BY <1>11, <1>12, <2>0, <2>1, <2>3, <2>4 DEF ChainHeader, Goto, LunInv, PrimaryKept,
         SecondaryTakesOver, SwappedRows, TornImagesUnused, Intact
    <2>6. LabelInv'
      BY <1>12, <2>0, <2>1, <2>3 DEF ChainHeader, Goto, IInv, LabelInv, Headers, NewRows
    <2> QED BY <1>12, <2>1, <2>2, <2>5, <2>6, IInvWrite DEF ChainHeader, Goto
  <1>13. CASE ChainRows
    <2> DEFINE table == [disk[cur].sec EXCEPT !.arr = NewRows(cur)]
    <2>0. disk[cur].prim.arr = FactoryRows[cur]
      BY <1>13 DEF ChainRows, TypeInv
    <2>1. /\ table \in TableType /\ table.st = disk[cur].sec.st /\ table.crc = disk[cur].sec.crc
          /\ table.arr = NewRows(cur) /\ pc = "chainRows" /\ cur \in Luns /\ cur \in todo
      BY <1>0, <1>11, <1>13, <2>0 DEF ChainRows, TableType
    <2>2. Write(cur, "sec", table)
      BY <1>13 DEF ChainRows
    <2> HIDE DEF table
    <2>3. disk'[cur].sec = table /\ disk'[cur].prim = disk[cur].prim
      BY <2>1, <2>2, OrderedWrite
    <2>4. disk[cur].prim.st = "OK"
      BY <2>1 DEF IInv, LabelInv, Headers
    <2>5. LunInv(cur)'
      BY <1>11, <1>13, <2>0, <2>1, <2>3, <2>4 DEF ChainRows, Goto, LunInv, PrimaryKept,
         PrimaryLost, SecondaryTakesOver, SwappedRows, TornImagesUnused, Intact
    <2>6. LabelInv'
      BY <1>13, <2>0, <2>1, <2>3 DEF ChainRows, Goto, AfterChain, IInv, LabelInv, Headers, NewRows,
         PrimaryKept, UPDATE_MAIN, UPDATE_FINALIZE
    <2>7. pc' \in {"corruptPrim", "fixSec"}
      BY <1>13 DEF ChainRows, Goto, AfterChain
    <2> QED BY <1>13, <2>1, <2>2, <2>5, <2>6, <2>7, IInvWrite DEF ChainRows, Goto
  <1>14. ~ChainRowsShort
    BY DEF OrderedWrites, ChainRowsShort
  (* gpt_set_state changes the state of a header.                          *)
  <1>15. ASSUME NEW which \in {"prim", "sec"}, NEW st \in States, pc \notin {"idle", "loop"},
                SetState(cur, which, st)
         PROVE  /\ disk'[cur][which].st = st
                /\ disk'[cur][which].arr = disk[cur][which].arr
                /\ disk'[cur][which].crc = disk[cur][which].crc
                /\ \A w \in {"prim", "sec"} : w # which => disk'[cur][w] = disk[cur][w]
                /\ [disk[cur][which] EXCEPT !.st = st] \in TableType
                /\ Write(cur, which, [disk[cur][which] EXCEPT !.st = st])
    <2> DEFINE table == [disk[cur][which] EXCEPT !.st = st]
    <2>1. disk[cur][which] \in TableType
      BY <1>0, <1>11, <1>15
    <2>2. /\ table \in TableType /\ table.st = st /\ table.arr = disk[cur][which].arr
          /\ table.crc = disk[cur][which].crc
      BY <2>1 DEF TableType
    <2>3. Write(cur, which, table)
      BY <1>15 DEF SetState
    <2> HIDE DEF table
    <2>4. disk'[cur][which] = table /\ \A w \in {"prim", "sec"} : w # which => disk'[cur][w] = disk[cur][w]
      BY <1>0, <1>15, <2>2, <2>3, OrderedWrite
    <2> QED BY <2>2, <2>3, <2>4 DEF table
  <1>16. ASSUME NEW which \in {"prim", "sec"}, NEW st \in States, pc \notin {"idle", "loop"},
                SetState(cur, which, st), pc' \in {"exit", "corruptSec"}, Goto(pc'),
                UNCHANGED <<bootLun, grant, torn, exposed>>, LunInv(cur)', LabelInv',
                pc' = "exit" => Prepared(stage, cur)'
         PROVE  IInv'
    BY <1>0, <1>15, <1>16, IInvWrite DEF Goto
  <1>17. CASE CorruptPrimary
    <2>1. /\ disk'[cur].prim.st = "BAD_SIGNATURE" /\ disk'[cur].prim.arr = disk[cur].prim.arr
          /\ disk'[cur].prim.crc = disk[cur].prim.crc /\ disk'[cur].sec = disk[cur].sec
      BY <1>15, <1>17 DEF CorruptPrimary, States
    <2>2. /\ stage = UPDATE_MAIN /\ disk[cur].sec.st = "OK"
          /\ disk[cur].sec.crc = NewRows(cur) /\ disk[cur].sec.arr = NewRows(cur)
          /\ PrimaryKept(cur)
      BY <1>17 DEF CorruptPrimary, IInv, LabelInv, Headers
    <2>3. LunInv(cur)'
      BY <1>0, <1>11, <1>17, <2>1, <2>2 DEF CorruptPrimary, Goto, LunInv, PrimaryKept,
         PrimaryLost, SecondaryTakesOver, SwappedRows, TornImagesUnused, Intact, NewRows
    <2>4. Prepared(stage, cur)'
      BY <1>17, <2>1, <2>2 DEF CorruptPrimary, Goto, Prepared, UPDATE_MAIN, UPDATE_BACKUP
    <2>5. LabelInv'
      BY <1>17 DEF CorruptPrimary, Goto, LabelInv
    <2> QED BY <1>16, <1>17, <2>3, <2>4, <2>5 DEF CorruptPrimary, Goto, States
  <1>18. CASE FixPrimary
    <2>1. /\ disk'[cur].prim.st = "OK" /\ disk'[cur].prim.arr = disk[cur].prim.arr
          /\ disk'[cur].prim.crc = disk[cur].prim.crc /\ disk'[cur].sec = disk[cur].sec
      BY <1>15, <1>18 DEF FixPrimary, States
    <2>2. /\ stage = UPDATE_BACKUP /\ disk[cur].sec.st = "OK" /\ Intact(cur, "main")
          /\ PrimaryKept(cur)
      BY <1>0, <1>11, <1>18 DEF LunInv, PrimaryLost, FixPrimary, IInv, LabelInv, Headers, CallInv
    <2>3. LunInv(cur)'
      BY <1>0, <1>11, <1>18, <2>1, <2>2 DEF FixPrimary, Goto, LunInv, PrimaryKept,
         PrimaryLost, SecondaryTakesOver, SwappedRows, TornImagesUnused, Intact
    <2>4. LabelInv'
      BY <1>18, <2>1, <2>2 DEF FixPrimary, Goto, LabelInv, Headers, PrimaryKept
    <2> QED BY <1>16, <1>18, <2>3, <2>4 DEF FixPrimary, Goto, States
  <1>19. CASE CorruptSecondary
    <2>1. /\ disk'[cur].sec.st = "BAD_SIGNATURE" /\ disk'[cur].sec.arr = disk[cur].sec.arr
          /\ disk'[cur].sec.crc = disk[cur].sec.crc /\ disk'[cur].prim = disk[cur].prim
      BY <1>15, <1>19 DEF CorruptSecondary, States
    <2>2. stage = UPDATE_BACKUP /\ disk[cur].prim.st = "OK" /\ PrimaryKept(cur)
      BY <1>19 DEF CorruptSecondary, IInv, LabelInv, Headers
    <2>3. LunInv(cur)'
      BY <1>0, <1>11, <1>19, <2>1, <2>2 DEF CorruptSecondary, Goto, LunInv, PrimaryKept,
         PrimaryLost, SecondaryTakesOver, SwappedRows, TornImagesUnused, Intact
    <2>4. Prepared(stage, cur)'
      BY <1>19, <2>1, <2>2 DEF CorruptSecondary, Goto, Prepared, UPDATE_MAIN, UPDATE_BACKUP
    <2>5. LabelInv'
      BY <1>19 DEF CorruptSecondary, Goto, LabelInv
    <2> QED BY <1>16, <1>19, <2>3, <2>4, <2>5 DEF CorruptSecondary, Goto, States
  <1>20. CASE FixSecondary
    <2>1. /\ disk'[cur].sec.st = "OK" /\ disk'[cur].sec.arr = disk[cur].sec.arr
          /\ disk'[cur].sec.crc = disk[cur].sec.crc /\ disk'[cur].prim = disk[cur].prim
      BY <1>15, <1>20 DEF FixSecondary, States
    <2>2. /\ stage = UPDATE_FINALIZE /\ disk[cur].prim.st = "OK" /\ Intact(cur, "bak")
          /\ PrimaryKept(cur)
      BY <1>0, <1>11, <1>20 DEF LunInv, PrimaryLost, Valid, FixSecondary, IInv, LabelInv, Headers, CallInv
    <2>3. LunInv(cur)'
      BY <1>0, <1>11, <1>20, <2>1, <2>2 DEF FixSecondary, Goto, LunInv, PrimaryKept,
         PrimaryLost, SecondaryTakesOver, SwappedRows, TornImagesUnused, Intact
    <2>4. Prepared(stage, cur)'
      BY <1>20, <2>1, <2>2 DEF FixSecondary, Goto, Prepared,
         UPDATE_MAIN, UPDATE_BACKUP, UPDATE_FINALIZE
    <2>5. LabelInv'
      BY <1>20 DEF FixSecondary, Goto, LabelInv
    <2> QED BY <1>16, <1>20, <2>3, <2>4, <2>5 DEF FixSecondary, Goto, States
  (* Half of the secondary array: the primary table is the one that boots. *)
  <1>21. ASSUME pc = "chainRows", Write(cur, "sec", [disk[cur].sec EXCEPT !.arr = Torn]),
                UNCHANGED <<torn, exposed>>
         PROVE  /\ [disk[cur].sec EXCEPT !.arr = Torn] \in TableType
                /\ media' = disk'
                /\ \A k \in Luns : LunInv(k)'
    <2> DEFINE table == [disk[cur].sec EXCEPT !.arr = Torn]
    <2>1. /\ table \in TableType /\ table.st = disk[cur].sec.st /\ table.crc = disk[cur].sec.crc
          /\ cur \in Luns
      BY <1>0, <1>11, <1>21 DEF TableType
    <2>2. Write(cur, "sec", table)
      BY <1>21
    <2> HIDE DEF table
    <2>3. /\ disk'[cur].sec = table /\ disk'[cur].prim = disk[cur].prim /\ media' = disk'
          /\ \A k \in Luns : k # cur => disk'[k] = disk[k]
      BY <2>1, <2>2, OrderedWrite
    <2>4. disk[cur].prim.st = "OK" /\ disk[cur].prim.arr = FactoryRows[cur]
      BY <1>21 DEF IInv, LabelInv, Headers, TypeInv
    <2>5. ASSUME NEW k \in Luns, k = cur PROVE LunInv(k)'
      BY <1>11, <1>21, <2>1, <2>3, <2>4, <2>5 DEF LunInv, PrimaryKept, PrimaryLost, SecondaryTakesOver, SwappedRows,
         TornImagesUnused, Intact
    <2>6. \A k \in Luns : k # cur => LunInv(k)'
      BY <1>21, <2>3 DEF IInv, LunInv, PrimaryKept, PrimaryLost, SecondaryTakesOver, SwappedRows, TornImagesUnused, Intact
    <2> QED BY <2>1, <2>3, <2>5, <2>6 DEF table
  <1>22. CASE IoError
    <2>1. CASE UNCHANGED tables
      BY <1>0, <1>22, <2>1, IInvQuiet DEF IoError, ExitWith, tables, LabelInv
    <2>2. CASE pc = "chainRows" /\ Write(cur, "sec", [disk[cur].sec EXCEPT !.arr = Torn])
      <3>1. LabelInv'
        BY <1>22 DEF IoError, ExitWith, LabelInv
      <3> QED BY <1>0, <1>21, <1>22, <2>2, <3>1, IInvWrite DEF IoError, ExitWith
    <2> QED BY <1>22, <2>1, <2>2 DEF IoError
  <1>23. CASE Exit
    <2>1. media' = disk' /\ disk' = disk
      BY <1>0, <1>23 DEF Exit, IInv, TypeInv, TypeOK
    <2>2. /\ \A l \in Luns : LunInv(l)'
          /\ \A l \in Luns, c \in Copies : Intact(l, c)' = Intact(l, c)
          /\ \A l \in Luns, s \in Stages : Prepared(s, l)' = Prepared(s, l)
      BY <1>23, LunInvUnchanged DEF Exit
    <2>3. CallInv'
      BY <1>0, <1>23, <2>2 DEF Exit, IInv, CallInv, Copies
    <2>4. ~isError' => \A l \in lunList \ todo' : Prepared(stage, l)
      BY <1>23 DEF Exit, IInv, ProgressInv
    <2>5. ProgressInv'
      BY <1>0, <1>23, <2>2, <2>4 DEF Exit, ProgressInv
    <2> QED BY <1>23, <2>1, <2>2, <2>3, <2>5 DEF Exit, IInv, LabelInv
  <1>24. CASE Return
    <2>1. /\ \A l \in Luns : LunInv(l)'
          /\ \A l \in Luns, s \in Stages : Prepared(s, l)' = Prepared(s, l)
      BY <1>24, LunInvUnchanged DEF Return, tables
    <2>2. CallInv'
      BY <1>24 DEF Return, CallInv, IInv
    <2>3. /\ grant' = "main" => ~isError /\ stage = UPDATE_MAIN
          /\ grant' = "bak" => ~isError /\ stage = UPDATE_BACKUP
      BY <1>24 DEF Return, Granted
    <2>4. ProgressInv'
      BY <1>0, <1>24, <2>1, <2>3 DEF Return, IInv, ProgressInv, Stages
    <2> QED BY <1>24, <2>1, <2>2, <2>4 DEF Return, tables, IInv, LabelInv
  (* The updater writes the copy it was granted.                           *)
  <1>25. ASSUME NEW t \in Targets, BeginWrite(t) PROVE IInv'
    <2>1. ASSUME NEW l \in Luns PROVE LunInv(l)'
      <3>1. CASE t \notin LunTargets(l)
        BY <1>25, <3>1 DEF BeginWrite, tables, IInv, LunInv, PrimaryKept, PrimaryLost, SecondaryTakesOver, SwappedRows,
           TornImagesUnused, Intact
      <3>2. CASE t \in LunTargets(l)
        <4>0. CASE l \notin lunList
          <5>1. l \in exposed'
            BY <1>25, <3>2, <4>0, TargetIsNotXbl DEF BeginWrite
          <5> QED BY <1>25, <5>1 DEF BeginWrite, tables, IInv, LunInv, PrimaryKept, PrimaryLost,
                 SecondaryTakesOver, SwappedRows, TornImagesUnused, Intact
        <4> SUFFICES ASSUME l \in lunList PROVE LunInv(l)'
          BY <4>0
        <4>1. l \in lunList /\ BackupFound(FactoryRows[l])
          BY <3>2, TargetsVisited DEF BackupFound, OrderedWrites
        <4>2. /\ grant = "main" => disk[l].prim.st = "BAD_SIGNATURE"
              /\ grant = "bak" => disk[l].sec.st = "BAD_SIGNATURE"
          BY <4>1 DEF IInv, ProgressInv, Prepared, UPDATE_MAIN, UPDATE_BACKUP
        <4>3. PrimaryKept(l)
          BY <1>25, <4>2 DEF BeginWrite, TypeInv, TypeOK, Copies, IInv, LunInv, PrimaryLost, Valid
        <4> QED BY <1>25, <4>2, <4>3 DEF BeginWrite, tables, IInv, LunInv, PrimaryKept,
               SecondaryTakesOver, SwappedRows, TornImagesUnused, Intact
      <3> QED BY <3>1, <3>2
    <2> QED BY <1>25, <2>1 DEF BeginWrite, tables, frame, IInv, CallInv, LabelInv, ProgressInv, Prepared
  <1>26. ASSUME NEW t \in Targets, EndWrite(t) PROVE IInv'
    <2>1. \A l \in Luns : LunInv(l)'
      BY <1>26 DEF EndWrite, tables, IInv, LunInv, PrimaryKept, PrimaryLost, SecondaryTakesOver, SwappedRows,
         TornImagesUnused, Intact
    <2> QED BY <1>26, <2>1 DEF EndWrite, tables, frame, IInv, CallInv, LabelInv, ProgressInv, Prepared
  <1>27. \A l \in Luns, which \in {"prim", "sec"} : ~Flush(l, which)
    BY DEF OrderedWrites, Flush
  (* A table goes bad while both tables of every LUN are good.             *)
  <1>30. ASSUME NEW l \in Luns, NEW which \in {"prim", "sec"}, Decay(l, which) PROVE IInv'
    <2>1. PICK table \in {[disk[l][which] EXCEPT !.st = "BAD_CRC"],
                           [disk[l][which] EXCEPT !.arr = Torn]} :
             /\ disk' = [disk EXCEPT ![l][which] = table]
             /\ media' = [media EXCEPT ![l][which] = table]
      BY <1>30 DEF Decay
    <2>2. /\ media' = disk' /\ \A k \in Luns : k # l => disk'[k] = disk[k]
          /\ disk'[l][which] = table
          /\ \A w \in {"prim", "sec"} : w # which => disk'[l][w] = disk[l][w]
      BY <2>1 DEF IInv, TypeInv, TypeOK, GptType
    <2>3. /\ Valid(disk[l].prim) /\ Valid(disk[l].sec) /\ UNCHANGED <<torn, exposed>>
          /\ pc' = "idle" /\ UNCHANGED <<grant, todo>> /\ grant = "none" /\ pc = "idle"
      BY <1>30 DEF Decay, frame
    <2>4. PrimaryKept(l) /\ Intact(l, "main") /\ Intact(l, "bak")
      BY <2>3 DEF IInv, LunInv, PrimaryKept, PrimaryLost, TornImagesUnused, Valid, TypeInv, PrimaryArrayKept
    <2>5. /\ table.crc = disk[l][which].crc /\ table.st \in {"OK", "BAD_CRC"}
          /\ table.st = "BAD_CRC" \/ table.arr = Torn
      <3>1. disk[l][which] \in TableType /\ disk[l][which].st = "OK"
        BY <2>3 DEF TypeInv, TypeOK, GptType, Valid
      <3> QED BY <3>1 DEF TableType
    <2>6. LunInv(l)'
      <3>1. CASE which = "prim"
        BY <2>2, <2>3, <2>4, <2>5, <3>1, BootUpdateAssumption
        DEF IInv, LunInv, SwappedRows, PrimaryKept, PrimaryLost, Valid, Intact
      <3>2. CASE which = "sec"
        BY <2>2, <2>3, <2>4, <2>5, <3>2
        DEF IInv, LunInv, PrimaryKept, SecondaryTakesOver, SwappedRows, TornImagesUnused, Valid, Intact
      <3> QED BY <3>1, <3>2
    <2>7. \A k \in Luns : LunInv(k)'
      BY <2>2, <2>3, <2>6 DEF IInv, LunInv, PrimaryKept, PrimaryLost, SecondaryTakesOver, SwappedRows,
         TornImagesUnused, Intact
    <2> QED BY <2>2, <2>3, <2>7 DEF IInv, CallInv, LabelInv, ProgressInv
  <1>28. CASE Kill
    <2>1. CASE UNCHANGED tables
      BY <1>28, <2>1, IInvIdle, LunInvUnchanged DEF Kill, Interrupted, tables, IInv
    <2>2. CASE pc = "chainRows" /\ Write(cur, "sec", [disk[cur].sec EXCEPT !.arr = Torn])
      BY <1>21, <1>28, <2>2, IInvIdle DEF Kill, Interrupted
    <2> QED BY <1>28, <2>1, <2>2 DEF Kill
  <1>29. CASE PowerLoss
    <2>1. CASE media' = media
      BY <1>29, <2>1, IInvIdle, LunInvUnchanged DEF PowerLoss, Interrupted, IInv
    <2>2. CASE /\ pc = "chainRows"
               /\ media' = [media EXCEPT ![cur]["sec"] = [@ EXCEPT !.arr = Torn]]
      <3>1. Write(cur, "sec", [disk[cur].sec EXCEPT !.arr = Torn])
        BY <1>0, <1>29, <2>2 DEF OrderedWrites, PowerLoss, Write, IInv, TypeInv, TypeOK, GptType
      <3> QED BY <1>21, <1>29, <2>2, <3>1, IInvIdle DEF PowerLoss, Interrupted
    <2> QED BY <1>29, <2>1, <2>2 DEF PowerLoss
  <1> QED
    BY <1>1, <1>2, <1>3, <1>4, <1>5, <1>6, <1>7, <1>8, <1>9, <1>10, <1>12, <1>13, <1>14,
       <1>17, <1>18, <1>19, <1>20, <1>22, <1>23, <1>24, <1>25, <1>26, <1>27, <1>28, <1>29, <1>30
    DEF Next, CallStep, CheckState, ChainStep, SetStateStep, Environment

LEMMA SafetyInvariant ==
    ASSUME OrderedWrites
    PROVE  Spec => [](TypeInv /\ IInv)
  <1>1. Init => TypeInv /\ IInv
    BY TypeInvInit, IInvInit
  <1>2. TypeInv /\ IInv /\ [Next]_vars => TypeInv' /\ IInv'
    BY TypeInvNext, IInvNext
  <1> QED BY <1>1, <1>2, PTL DEF Spec

(* What the headers tell a caller after a restart is true, at every step   *)
(* of every stage, on any number of LUNs, some of which a call may have    *)
(* left out because their links were lost: incomplete images of a LUN that *)
(* was never overwritten while left out are selected by no table, and a    *)
(* LUN on the list that counts as prepared is.                             *)
THEOREM IInvCorrect ==
    ASSUME OrderedWrites
    PROVE  Spec => []IInv
  BY SafetyInvariant, PTL

(* A power loss, a kill or an error return at any point of a stage, on any *)
(* number of LUNs, leaves a device whose tables boot complete images; a    *)
(* LUN that a call has left out without saying so is not protected.        *)
THEOREM FailsafeCorrect ==
    ASSUME OrderedWrites
    PROVE  Spec => []FailsafeTables
  <1>1. TypeInv /\ IInv => FailsafeTables
    BY SafetyFromInv
  <1> QED BY <1>1, SafetyInvariant, PTL

(* The partitions of a LUN always boot from the same chain.                *)
THEOREM NoMixedChainCorrect ==
    ASSUME OrderedWrites
    PROVE  Spec => []NoMixedChain
  <1>1. TypeInv /\ IInv => NoMixedChain
    BY SafetyFromInv
  <1> QED BY <1>1, SafetyInvariant, PTL

-----------------------------------------------------------------------------
(* A LUN that was visited without an error: neither header is damaged, and *)
(* both tables are on the medium.                                          *)
Undamaged(l) == disk[l].prim.st # "BAD_CRC" /\ disk[l].sec.st # "BAD_CRC"

Synced(l) == Undamaged(l) /\ media[l] = disk[l]

AtWork == pc \notin {"idle", "loop", "check", "exit"}

VisitInv ==
    /\ pc # "idle" => grant = "none" /\ stage \in Stages
    /\ pc \notin {"idle", "loop"} => cur \in todo
    /\ AtWork \/ (pc = "exit" /\ r = 0) => Undamaged(cur)
    /\ pc # "idle" /\ ~isError => \A l \in lunList \ todo : Synced(l)
    /\ grant # "none" => \A l \in lunList : Synced(l)

LEMMA VisitInit == Init => VisitInv
  BY DEF Init, VisitInv, AtWork

(* A step that changes no table.                                           *)
LEMMA VisitQuiet ==
    ASSUME VisitInv, UNCHANGED <<disk, media, stage, lunList, todo, isError, grant>>, pc # "idle", pc' # "idle",
           pc' \notin {"idle", "loop"} => cur' \in todo,
           AtWork' \/ (pc' = "exit" /\ r' = 0) => Undamaged(cur')
    PROVE  VisitInv'
  BY DEF VisitInv, Undamaged, Synced

(* A step of a call that writes a table of the current LUN.                *)
LEMMA VisitWrite ==
    ASSUME TypeInv, VisitInv, pc \notin {"idle", "loop"}, pc' \notin {"idle", "loop"},
           NEW which \in {"prim", "sec"}, NEW table, Write(cur, which, table),
           UNCHANGED <<stage, lunList, todo, cur, isError, grant>>,
           AtWork' \/ (pc' = "exit" /\ r' = 0) => Undamaged(cur) /\ table.st # "BAD_CRC"
    PROVE  VisitInv'
  <1>1. cur \in Luns /\ cur \in todo /\ grant = "none"
    BY DEF TypeInv, VisitInv
  <1>2. \A k \in Luns : k # cur => disk'[k] = disk[k] /\ media'[k] = media[k]
    BY <1>1 DEF Write, TypeInv, TypeOK
  <1>3. Undamaged(cur) /\ table.st # "BAD_CRC" => Undamaged(cur)'
    BY <1>1 DEF Write, TypeInv, TypeOK, GptType, Undamaged
  <1>4. \A l \in lunList \ todo : Synced(l)' = Synced(l)
    BY <1>1, <1>2, ListedLuns DEF Synced, Undamaged
  <1> QED BY <1>1, <1>3, <1>4 DEF VisitInv

LEMMA VisitNext ==
    ASSUME TypeInv, VisitInv, [Next]_vars
    PROVE  VisitInv'
  <1>0. /\ TypeOK /\ lunList \subseteq Luns /\ todo \subseteq lunList
        /\ pc \notin {"idle", "loop"} => cur \in Luns /\ cur \in todo
        /\ pc # "idle" => grant = "none" /\ stage \in Stages
    BY ListedLuns DEF TypeInv, VisitInv
  <1>1. CASE UNCHANGED vars
    BY <1>1 DEF vars, VisitInv, AtWork, Undamaged, Synced
  <1>2. ASSUME NEW s \in Stages, Call(s) PROVE VisitInv'
    BY <1>2 DEF Call, VisitInv, AtWork
  <1>3. ASSUME NEW l \in Luns, Open(l) PROVE VisitInv'
    BY <1>3, VisitQuiet DEF Open, tables, AtWork
  <1>4. ASSUME NEW l \in Luns, OpenFails(l) PROVE VisitInv'
    BY <1>4 DEF OpenFails, tables, VisitInv, AtWork
  <1>5. CASE CheckState
    <2>1. InternalStage(disk[cur]) # 0 => Undamaged(cur)
      BY DEF InternalStage, Undamaged
    <2>2. pc # "idle" => stage # 0 /\ stage + 1 # 0
      BY <1>0 DEF Stages, UPDATE_MAIN, UPDATE_BACKUP, UPDATE_FINALIZE
    <2> QED BY <1>0, <1>5, <2>1, <2>2, VisitQuiet DEF CheckState, CheckRefused, CheckAlreadySet,
       CheckReady, Goto, ExitWith, FirstWrite, tables, AtWork
  <1>6. CASE SwitchXbl \/ ChainArrayBad \/ ChainNoBackup
    <2>1. Undamaged(cur)
      BY <1>6 DEF SwitchXbl, ChainArrayBad, ChainNoBackup, VisitInv, AtWork
    <2> QED BY <1>0, <1>6, <2>1, VisitQuiet DEF SwitchXbl, ChainArrayBad, ChainNoBackup,
       Goto, ExitWith, tables, AtWork
  <1>7. CASE ChainHeader \/ ChainRows \/ ChainRowsShort
    <2>1. /\ Undamaged(cur) /\ cur \in Luns
          /\ pc \in {"chainHeader", "chainRows"} /\ pc' \in {"chainRows", "corruptPrim", "fixSec"}
          /\ UNCHANGED <<stage, lunList, todo, cur, isError, grant>>
      BY <1>0, <1>7 DEF ChainHeader, ChainRows, ChainRowsShort, Goto, AfterChain, VisitInv, AtWork
    <2>2. PICK table : Write(cur, "sec", table) /\ table.st = disk[cur].sec.st
      <3>1. disk[cur].sec \in TableType
        BY <1>0, <2>1 DEF TypeOK, GptType
      <3>2. CASE ChainHeader
        BY <3>1, <3>2 DEF ChainHeader, TableType
      <3>3. CASE ChainRows
        BY <3>1, <3>3 DEF ChainRows, TableType
      <3>4. CASE ChainRowsShort
        BY <3>1, <3>4 DEF ChainRowsShort, TableType
      <3> QED BY <1>7, <3>2, <3>3, <3>4
    <2> QED BY <2>1, <2>2, VisitWrite DEF Undamaged
  <1>8. CASE SetStateStep
    <2>1. /\ Undamaged(cur) /\ cur \in Luns
          /\ pc \notin {"idle", "loop"} /\ pc' \notin {"idle", "loop"}
          /\ UNCHANGED <<stage, lunList, todo, cur, isError, grant>>
      BY <1>0, <1>8 DEF SetStateStep, CorruptPrimary, FixPrimary, CorruptSecondary, FixSecondary,
         Goto, VisitInv, AtWork
    <2>2. PICK which \in {"prim", "sec"}, st \in {"OK", "BAD_SIGNATURE"} : SetState(cur, which, st)
      BY <1>8 DEF SetStateStep, CorruptPrimary, FixPrimary, CorruptSecondary, FixSecondary
    <2>3. [disk[cur][which] EXCEPT !.st = st].st = st
      BY <1>0, <2>1 DEF TypeOK, GptType, TableType
    <2> QED BY <2>1, <2>2, <2>3, VisitWrite DEF SetState
  <1>9. CASE IoError
    <2>1. /\ pc \notin {"idle", "loop"} /\ pc' = "exit" /\ r' = -1
          /\ UNCHANGED <<stage, lunList, todo, cur, isError, grant>>
      BY <1>9 DEF IoError, ExitWith
    <2>2. CASE UNCHANGED tables
      BY <1>0, <2>1, <2>2, VisitQuiet DEF tables, AtWork
    <2>3. CASE Write(cur, "sec", [disk[cur].sec EXCEPT !.arr = Torn])
      BY <2>1, <2>3, VisitWrite DEF AtWork
    <2> QED BY <1>9, <2>2, <2>3 DEF IoError
  <1>10. CASE Exit
    <2>1. /\ cur \in Luns /\ disk' = disk /\ media'[cur] = disk[cur]
          /\ \A k \in Luns : k # cur => media'[k] = media[k]
      BY <1>0, <1>10 DEF Exit, TypeOK
    <2>2. ~isError' => ~isError /\ Undamaged(cur)
      BY <1>10 DEF Exit, VisitInv
    <2>3. ~isError' => \A l \in lunList \ todo' : Synced(l)'
      BY <1>0, <1>10, <2>1, <2>2 DEF Exit, VisitInv, Synced, Undamaged
    <2> QED BY <1>0, <1>10, <2>3 DEF Exit, VisitInv, AtWork
  <1>11. CASE Return
    BY <1>11 DEF Return, tables, VisitInv, AtWork, Synced, Undamaged
  <1>12. ASSUME NEW t \in Targets, BeginWrite(t) \/ EndWrite(t) PROVE VisitInv'
    BY <1>12 DEF BeginWrite, EndWrite, tables, frame, VisitInv, AtWork, Synced, Undamaged
  <1>13. ASSUME NEW l \in Luns, NEW which \in {"prim", "sec"}, Flush(l, which) PROVE VisitInv'
    <2>1. UNCHANGED <<disk, frame, grant>>
      BY <1>13 DEF Flush
    <2>2. ASSUME NEW k \in Luns, media[k] = disk[k] PROVE media'[k] = disk[k]
      <3>1. CASE k # l
        BY <1>0, <1>13, <2>2, <3>1 DEF Flush, TypeOK
      <3>2. CASE k = l
        <4>1. media[l] \in GptType /\ media[l][which] \in TableType /\ media[l][which] = disk[l][which]
          BY <1>0, <2>2, <3>2 DEF TypeOK, GptType
        <4>2. PICK table : table = media[l][which] /\ media' = [media EXCEPT ![l][which] = table]
          BY <1>13, <4>1 DEF Flush, TableType
        <4> QED BY <1>0, <2>2, <3>2, <4>1, <4>2 DEF TypeOK, GptType
      <3> QED BY <3>1, <3>2
    <2>3. \A k \in lunList : Synced(k) => Synced(k)'
      BY <1>0, <2>1, <2>2 DEF Synced, Undamaged
    <2> QED BY <1>0, <2>1, <2>3 DEF frame, VisitInv, AtWork, Undamaged
  <1>14. ASSUME NEW l \in Luns, NEW which \in {"prim", "sec"}, Decay(l, which) PROVE VisitInv'
    BY <1>14 DEF Decay, frame, VisitInv, AtWork
  <1>15. CASE Kill \/ PowerLoss
    BY <1>15 DEF Kill, PowerLoss, Interrupted, VisitInv, AtWork
  <1> QED
    BY <1>1, <1>2, <1>3, <1>4, <1>5, <1>6, <1>7, <1>8, <1>9, <1>10, <1>11, <1>12, <1>13,
       <1>14, <1>15
    DEF Next, CallStep, ChainStep, Environment

LEMMA VisitCorrect == Spec => [](TypeInv /\ VisitInv)
  <1>1. Init => TypeInv /\ VisitInv
    BY TypeInvInit, VisitInit
  <1>2. TypeInv /\ VisitInv /\ [Next]_vars => TypeInv' /\ VisitInv'
    BY TypeInvNext, VisitNext
  <1> QED BY <1>1, <1>2, PTL DEF Spec

(* Whatever the faults, a LUN with a damaged header is not written to, and *)
(* the stage that met it is not reported as ready.                         *)
THEOREM DamagedLunUntouchedCorrect == Spec => []DamagedLunUntouched
  <1>1. VisitInv => DamagedLunUntouched
    BY DEF VisitInv, AtWork, Synced, Undamaged, DamagedLunUntouched
  <1> QED BY <1>1, VisitCorrect, PTL

(* Whatever the faults, and however the page cache writes back, the tables *)
(* a ready stage relies on are on the medium.                              *)
THEOREM GrantIsDurableCorrect == Spec => []GrantIsDurable
  <1>1. VisitInv => GrantIsDurable
    BY DEF VisitInv, Synced, GrantIsDurable
  <1> QED BY <1>1, VisitCorrect, PTL

-----------------------------------------------------------------------------
(* SafeToWrite does not need the order of the writes, only that the page   *)
(* cache is what the next call sees.  A corrupted primary table has next   *)
(* to it the CRC of the swapped array: the array itself may be torn, then  *)
(* the LUN boots nothing, but it does not boot the main copies.            *)
SwapVouched(l) ==
    disk[l].prim.st = "BAD_SIGNATURE" => disk[l].sec.crc = BootChainSwap(FactoryRows[l])

(* What each label of a call knows.                                        *)
CacheLabels ==
    /\ pc = "xbl" => stage \in {UPDATE_MAIN, UPDATE_BACKUP}
    /\ pc \in {"fixPrim", "corruptSec"} => stage = UPDATE_BACKUP
    /\ pc \in {"chainHeader", "chainRows"} => stage \in {UPDATE_MAIN, UPDATE_FINALIZE}
    /\ pc = "corruptPrim" => stage = UPDATE_MAIN
    /\ pc = "fixSec" => stage = UPDATE_FINALIZE
    /\ pc \in {"xbl", "chainHeader", "chainRows", "corruptPrim", "fixSec"} /\ stage # UPDATE_BACKUP
          => disk[cur].prim.st = "OK"
    /\ pc \in {"chainRows", "corruptPrim"} /\ stage = UPDATE_MAIN
          => disk[cur].sec.crc = BootChainSwap(FactoryRows[cur])

CacheInv ==
    /\ ~WriteBack => media = disk
    /\ \A l \in Luns : SwapVouched(l)
    /\ CacheLabels
    /\ ProgressInv

LEMMA CacheInit == Init => CacheInv
  BY DEF Init, CacheInv, CacheLabels, FactoryGpt, SwapVouched, ProgressInv, UpdateLuns

(* A step of a call that writes nothing.                                   *)
LEMMA CacheQuiet ==
    ASSUME TypeInv, VisitInv, CacheInv, UNCHANGED <<disk, media, stage, lunList, todo, isError, grant>>,
           pc # "idle", pc' # "idle", CacheLabels',
           pc' = "exit" /\ r' = 0 => Prepared(stage, cur')
    PROVE  CacheInv'
  <1>1. \A l \in Luns : SwapVouched(l)'
    BY DEF CacheInv, SwapVouched
  <1>2. grant = "none"
    BY DEF VisitInv
  <1>3. \A l, s : Prepared(s, l)' = Prepared(s, l)
    BY DEF Prepared
  <1>4. pc' = "exit" /\ r' = 0 => Prepared(stage, cur)'
    BY <1>3
  <1>5. pc' # "idle" /\ ~isError' => \A l \in lunList \ todo' : Prepared(stage, l)'
    BY <1>3 DEF CacheInv, ProgressInv
  <1> QED BY <1>1, <1>2, <1>4, <1>5 DEF CacheInv, CacheLabels, ProgressInv

(* A step of a call that writes a table of the current LUN.                *)
LEMMA CacheWrite ==
    ASSUME TypeInv, VisitInv, CacheInv, pc \notin {"idle", "loop"}, pc' \notin {"idle", "loop"},
           NEW which \in {"prim", "sec"}, NEW table, Write(cur, which, table),
           UNCHANGED <<stage, lunList, todo, cur, isError, grant>>,
           CacheLabels', SwapVouched(cur)',
           pc' = "exit" /\ r' = 0 => Prepared(stage, cur)'
    PROVE  CacheInv'
  <1>1. cur \in Luns /\ cur \in todo /\ grant = "none"
    BY DEF TypeInv, VisitInv
  <1>2. \A k \in Luns : k # cur => disk'[k] = disk[k]
    BY <1>1 DEF Write, TypeInv, TypeOK
  <1>3. ~WriteBack => media' = disk'
    BY DEF CacheInv, Write
  <1>4. \A l \in Luns : SwapVouched(l)'
    BY <1>2 DEF CacheInv, SwapVouched
  <1>5. \A l \in lunList \ todo : Prepared(stage, l)' = Prepared(stage, l)
    BY <1>1, <1>2, ListedLuns DEF Prepared
  <1>6. ProgressInv'
    BY <1>1, <1>5 DEF CacheInv, ProgressInv
  <1> QED BY <1>3, <1>4, <1>6 DEF CacheInv, CacheLabels

(* A step that ends a call, or one between two calls.                      *)
LEMMA CacheIdle ==
    ASSUME pc' = "idle", grant' = "none", ~WriteBack => media' = disk', \A l \in Luns : SwapVouched(l)'
    PROVE  CacheInv'
  BY DEF CacheInv, CacheLabels, ProgressInv

LEMMA CacheNext ==
    ASSUME PageCacheSurvives, TypeInv, TypeInv', VisitInv, CacheInv, [Next]_vars
    PROVE  CacheInv'
  <1>0. /\ TypeOK /\ lunList \subseteq Luns /\ todo \subseteq lunList
        /\ pc \notin {"idle", "loop"} => cur \in Luns /\ cur \in todo
        /\ pc # "idle" => grant = "none" /\ stage \in Stages
        /\ pc \notin {"idle", "loop"} => disk[cur].prim \in TableType /\ disk[cur].sec \in TableType
        /\ pc \notin {"idle", "loop"} => disk[cur].prim.crc = FactoryRows[cur]
    BY ListedLuns DEF TypeInv, TypeOK, GptType, VisitInv, PrimaryArrayKept
  <1>1. CASE UNCHANGED vars
    BY <1>1 DEF vars, CacheInv, CacheLabels, SwapVouched, ProgressInv, Prepared
  <1>2. ASSUME NEW s \in Stages, Call(s) PROVE CacheInv'
    BY <1>2 DEF Call, tables, CacheInv, CacheLabels, SwapVouched, ProgressInv
  <1>3. ASSUME NEW l \in Luns, Open(l) PROVE CacheInv'
    BY <1>3, CacheQuiet DEF Open, tables, CacheLabels
  <1>4. ASSUME NEW l \in Luns, OpenFails(l) PROVE CacheInv'
    BY <1>0, <1>4 DEF OpenFails, tables, CacheInv, CacheLabels, SwapVouched, ProgressInv
  <1>5. CASE CheckRefused
    BY <1>0, <1>5, CacheQuiet DEF CheckRefused, ExitWith, tables, CacheLabels
  <1>6. CASE CheckAlreadySet
    <2>1. Prepared(stage, cur)
      BY <1>0, <1>6 DEF CheckAlreadySet, InternalStage, Prepared, Stages,
         UPDATE_MAIN, UPDATE_BACKUP, UPDATE_FINALIZE, TableType, States
    <2> QED BY <1>0, <1>6, <2>1, CacheQuiet DEF CheckAlreadySet, ExitWith, tables, CacheLabels
  <1>7. CASE CheckReady
    <2>1. stage # UPDATE_BACKUP => disk[cur].prim.st = "OK"
      BY <1>0, <1>7 DEF CheckReady, InternalStage, Stages,
         UPDATE_MAIN, UPDATE_BACKUP, UPDATE_FINALIZE, TableType, States
    <2>2. CacheLabels' /\ pc' \in {"xbl", "fixPrim", "chainHeader"}
      BY <1>0, <1>7, <2>1 DEF CheckReady, Goto, FirstWrite, tables, CacheLabels, Stages,
         UPDATE_MAIN, UPDATE_BACKUP, UPDATE_FINALIZE
    <2> QED BY <1>7, <2>2, CacheQuiet DEF CheckReady, Goto, tables
  <1>8. CASE SwitchXbl
    <2>1. CacheLabels'
      BY <1>8 DEF SwitchXbl, Goto, tables, CacheInv, CacheLabels,
         UPDATE_MAIN, UPDATE_BACKUP, UPDATE_FINALIZE
    <2> QED BY <1>8, <2>1, CacheQuiet DEF SwitchXbl, Goto, tables
  <1>9. CASE ChainArrayBad
    BY <1>9, CacheQuiet DEF ChainArrayBad, ExitWith, tables, CacheLabels
  <1>10. CASE ChainNoBackup
    <2>1. Prepared(stage, cur)
      BY <1>0, <1>10 DEF ChainNoBackup, Prepared, UPDATE_MAIN, UPDATE_BACKUP
    <2> QED BY <1>10, <2>1, CacheQuiet DEF ChainNoBackup, ExitWith, tables, CacheLabels
  (* The writes: what they do to the current LUN.                          *)
  <1>11. ASSUME NEW which \in {"prim", "sec"}, NEW table, Write(cur, which, table), cur \in Luns
         PROVE  /\ disk'[cur][which] = table
                /\ \A w \in {"prim", "sec"} : w # which => disk'[cur][w] = disk[cur][w]
    BY <1>0, <1>11 DEF Write, TypeOK, GptType
  <1>12. CASE ChainHeader
    <2> DEFINE table == [disk[cur].sec EXCEPT !.crc = NewRows(cur)]
    <2>1. /\ table.crc = NewRows(cur) /\ cur \in Luns /\ disk[cur].prim.st = "OK"
          /\ stage \in {UPDATE_MAIN, UPDATE_FINALIZE} /\ disk[cur].prim.arr = FactoryRows[cur]
      BY <1>0, <1>12 DEF ChainHeader, CacheInv, CacheLabels, TableType,
         UPDATE_MAIN, UPDATE_BACKUP, UPDATE_FINALIZE
    <2>2. Write(cur, "sec", table)
      BY <1>12 DEF ChainHeader
    <2> HIDE DEF table
    <2>3. disk'[cur].sec = table /\ disk'[cur].prim = disk[cur].prim
      BY <1>11, <2>1, <2>2
    <2>4. CacheLabels' /\ SwapVouched(cur)'
      BY <1>12, <2>1, <2>3 DEF ChainHeader, Goto, CacheLabels, SwapVouched, NewRows
    <2> QED BY <1>12, <2>2, <2>4, CacheWrite DEF ChainHeader, Goto
  <1>13. CASE ChainRows \/ ChainRowsShort
    <2>1. PICK rows : Write(cur, "sec", [disk[cur].sec EXCEPT !.arr = rows])
      BY <1>13 DEF ChainRows, ChainRowsShort
    <2> DEFINE table == [disk[cur].sec EXCEPT !.arr = rows]
    <2>2. /\ table.crc = disk[cur].sec.crc /\ cur \in Luns /\ disk[cur].prim.st = "OK"
          /\ stage \in {UPDATE_MAIN, UPDATE_FINALIZE}
          /\ stage = UPDATE_MAIN => disk[cur].sec.crc = BootChainSwap(FactoryRows[cur])
      BY <1>0, <1>13 DEF ChainRows, ChainRowsShort, CacheInv, CacheLabels, TableType,
         UPDATE_MAIN, UPDATE_BACKUP, UPDATE_FINALIZE
    <2> HIDE DEF table
    <2>3. Write(cur, "sec", table)
      BY <2>1 DEF table
    <2>4. disk'[cur].sec = table /\ disk'[cur].prim = disk[cur].prim
      BY <1>11, <2>2, <2>3
    <2>5. CacheLabels' /\ SwapVouched(cur)'
      BY <1>13, <2>2, <2>4 DEF ChainRows, ChainRowsShort, Goto, AfterChain, CacheLabels, SwapVouched
    <2>6. pc' \in {"corruptPrim", "fixSec"}
      BY <1>13 DEF ChainRows, ChainRowsShort, Goto, AfterChain
    <2> QED BY <1>13, <2>3, <2>5, <2>6, CacheWrite DEF ChainRows, ChainRowsShort, Goto
  <1>14. CASE SetStateStep
    <2>1. PICK which \in {"prim", "sec"}, st \in {"OK", "BAD_SIGNATURE"} :
             /\ SetState(cur, which, st)
             /\ \/ CorruptPrimary /\ which = "prim" /\ st = "BAD_SIGNATURE"
                \/ FixPrimary /\ which = "prim" /\ st = "OK"
                \/ CorruptSecondary /\ which = "sec" /\ st = "BAD_SIGNATURE"
                \/ FixSecondary /\ which = "sec" /\ st = "OK"
      BY <1>14 DEF SetStateStep, CorruptPrimary, FixPrimary, CorruptSecondary, FixSecondary
    <2>2. /\ pc \in {"corruptPrim", "fixPrim", "corruptSec", "fixSec"} /\ pc' \in {"exit", "corruptSec"}
          /\ UNCHANGED <<stage, lunList, todo, cur, r, isError, grant>> /\ cur \in Luns
      BY <1>0, <2>1 DEF CorruptPrimary, FixPrimary, CorruptSecondary, FixSecondary, Goto
    <2> DEFINE table == [disk[cur][which] EXCEPT !.st = st]
    <2>3. table.st = st /\ table.crc = disk[cur][which].crc
      BY <1>0, <2>2 DEF TableType
    <2> HIDE DEF table
    <2>4. Write(cur, which, table)
      BY <2>1 DEF SetState, table
    <2>5. /\ disk'[cur][which] = table
          /\ \A w \in {"prim", "sec"} : w # which => disk'[cur][w] = disk[cur][w]
      BY <1>11, <2>2, <2>4
    <2>6. CacheLabels'
      BY <2>1, <2>2 DEF CorruptPrimary, FixPrimary, CorruptSecondary, FixSecondary, Goto,
         CacheInv, CacheLabels
    <2>7. SwapVouched(cur)'
      BY <2>1, <2>2, <2>3, <2>5 DEF CorruptPrimary, FixPrimary, CorruptSecondary, FixSecondary,
         CacheInv, CacheLabels, SwapVouched
    <2>8. pc' = "exit" => Prepared(stage, cur)'
      BY <2>1, <2>2, <2>3, <2>5 DEF CorruptPrimary, FixPrimary, CorruptSecondary, FixSecondary,
         Goto, CacheInv, CacheLabels, Prepared, UPDATE_MAIN, UPDATE_BACKUP, UPDATE_FINALIZE
    <2> QED BY <2>2, <2>4, <2>6, <2>7, <2>8, CacheWrite
  <1>15. CASE IoError
    <2>1. /\ pc \notin {"idle", "loop"} /\ pc' = "exit" /\ r' = -1 /\ CacheLabels'
          /\ UNCHANGED <<stage, lunList, todo, cur, isError, grant>>
      BY <1>15 DEF IoError, ExitWith, CacheLabels
    <2>2. CASE UNCHANGED tables
      BY <2>1, <2>2, CacheQuiet DEF tables
    <2>3. CASE Write(cur, "sec", [disk[cur].sec EXCEPT !.arr = Torn])
      <3>1. SwapVouched(cur)'
        BY <1>0, <1>11, <2>1, <2>3 DEF CacheInv, CacheLabels, SwapVouched, TableType
      <3> QED BY <2>1, <2>3, <3>1, CacheWrite
    <2> QED BY <1>15, <2>2, <2>3 DEF IoError
  <1>16. CASE Exit
    <2>1. disk' = disk /\ (~WriteBack => media' = disk)
      BY <1>0, <1>16 DEF Exit, CacheInv, CacheLabels, TypeOK
    <2>2. ~isError' => \A l \in lunList \ todo' : Prepared(stage, l)
      BY <1>16 DEF Exit, CacheInv, CacheLabels, ProgressInv
    <2> QED BY <1>0, <1>16, <2>1, <2>2 DEF Exit, CacheInv, CacheLabels, SwapVouched, ProgressInv, Prepared
  <1>17. CASE Return
    <2>1. /\ grant' = "main" => ~isError /\ stage = UPDATE_MAIN
          /\ grant' = "bak" => ~isError /\ stage = UPDATE_BACKUP
      BY <1>17 DEF Return, Granted
    <2> QED BY <1>17, <2>1 DEF Return, tables, CacheInv, CacheLabels, SwapVouched, ProgressInv, Prepared
  <1>18. ASSUME NEW t \in Targets, BeginWrite(t) \/ EndWrite(t) PROVE CacheInv'
    BY <1>18 DEF BeginWrite, EndWrite, tables, frame, CacheInv, CacheLabels, SwapVouched, ProgressInv, Prepared
  <1>19. ASSUME NEW l \in Luns, NEW which \in {"prim", "sec"}, Flush(l, which) PROVE CacheInv'
    BY <1>19 DEF Flush, frame, CacheInv, CacheLabels, SwapVouched, ProgressInv, Prepared
  <1>20. ASSUME NEW l \in Luns, NEW which \in {"prim", "sec"}, Decay(l, which) PROVE CacheInv'
    <2>1. PICK table \in {[disk[l][which] EXCEPT !.st = "BAD_CRC"],
                           [disk[l][which] EXCEPT !.arr = Torn]} :
             /\ disk' = [disk EXCEPT ![l][which] = table]
             /\ media' = [media EXCEPT ![l][which] = table]
      BY <1>20 DEF Decay
    <2>2. Valid(disk[l].prim) /\ Valid(disk[l].sec) /\ pc = "idle" /\ grant = "none"
      BY <1>20 DEF Decay
    <2>3. table.st # "BAD_SIGNATURE"
      <3>1. disk[l][which] \in TableType /\ disk[l][which].st = "OK"
        BY <1>0, <2>2 DEF TypeOK, GptType, Valid
      <3> QED BY <3>1 DEF TableType
    <2>4. disk'[l].prim.st # "BAD_SIGNATURE" /\ \A k \in Luns : k # l => disk'[k] = disk[k]
      <3>1. \A w \in {"prim", "sec"} : disk'[l][w] = IF w = which THEN table ELSE disk[l][w]
        BY <1>0, <2>1 DEF TypeOK, GptType
      <3> QED BY <1>0, <2>1, <2>2, <2>3, <3>1 DEF TypeOK, Valid
    <2>5. \A k \in Luns : SwapVouched(k)'
      BY <2>4 DEF CacheInv, CacheLabels, SwapVouched
    <2> QED BY <1>20, <2>1, <2>2, <2>5, CacheIdle DEF Decay, frame, CacheInv, CacheLabels
  <1>21. CASE Kill
    <2>1. CASE UNCHANGED tables
      BY <1>21, <2>1, CacheIdle DEF Kill, Interrupted, tables, CacheInv, CacheLabels, SwapVouched
    <2>2. CASE pc = "chainRows" /\ Write(cur, "sec", [disk[cur].sec EXCEPT !.arr = Torn])
      <3>1. \A k \in Luns : disk'[k].prim = disk[k].prim /\ disk'[k].sec.crc = disk[k].sec.crc
        BY <1>0, <2>2 DEF Write, TypeOK, GptType, TableType
      <3> QED BY <1>21, <2>2, <3>1, CacheIdle DEF Kill, Interrupted, Write, CacheInv, CacheLabels, SwapVouched
    <2> QED BY <1>21, <2>1, <2>2 DEF Kill
  <1>22. CASE PowerLoss
    <2>1. media = disk
      BY <1>22 DEF PowerLoss, PageCacheSurvives, CacheInv, CacheLabels
    <2>2. \A k \in Luns : disk'[k].prim = disk[k].prim /\ disk'[k].sec.crc = disk[k].sec.crc
      BY <1>0, <1>22, <2>1 DEF PowerLoss, TypeOK, GptType, TableType
    <2> QED BY <1>22, <2>2, CacheIdle DEF PowerLoss, Interrupted, CacheInv, CacheLabels, SwapVouched
  <1> QED
    BY <1>1, <1>2, <1>3, <1>4, <1>5, <1>6, <1>7, <1>8, <1>9, <1>10, <1>12, <1>13, <1>14, <1>15,
       <1>16, <1>17, <1>18, <1>19, <1>20, <1>21, <1>22
    DEF Next, CallStep, CheckState, ChainStep, Environment

(* After a success return no LUN on the list of the call boots from the    *)
(* copies about to be overwritten, whichever LUNs were prepared by an      *)
(* earlier call that was interrupted or failed elsewhere, also with short  *)
(* writes, damaged tables, lost links and a page cache that writes back in *)
(* any order.                                                              *)
THEOREM SafeToWriteCorrect ==
    ASSUME PageCacheSurvives, OnlyXblSkipped
    PROVE  Spec => []SafeToWrite
  <1>1. ASSUME TypeInv, VisitInv, CacheInv PROVE SafeToWrite
    <2> SUFFICES ASSUME NEW l \in Luns, NEW t \in LunTargets(l), grant # "none", l \in lunList
                 PROVE  ~Boots(t, grant)
      BY TargetIsNotXbl DEF SafeToWrite, TableTargets
    <2>1. l \in lunList /\ BackupFound(FactoryRows[l]) /\ media[l] = disk[l]
      BY <1>1, TargetsVisited DEF BackupFound, VisitInv, Synced
    <2>2. t # XblTarget /\ t[1] = l
      BY TargetIsNotXbl
    <2>3. CASE grant = "main"
      <3>1. disk[l].prim.st = "BAD_SIGNATURE" /\ disk[l].sec.crc = BootChainSwap(FactoryRows[l])
        BY <1>1, <2>1, <2>3 DEF CacheInv, ProgressInv, Prepared, SwapVouched
      <3>2. ASSUME Boots(t, "main") PROVE FALSE
        <4>1. BootsFrom(media[l], "sec")
          BY <2>1, <2>2, <3>1, <3>2 DEF Boots, BootsFrom, Valid
        <4>2. media[l].sec.arr = BootChainSwap(FactoryRows[l])
          BY <2>1, <3>1, <4>1 DEF BootsFrom, Valid
        <4> QED BY <3>2, <4>1, <4>2, SwappedBootsBackup
      <3> QED BY <2>3, <3>2
    <2>4. CASE grant = "bak"
      <3>1. disk[l].sec.st = "BAD_SIGNATURE" /\ disk[l].prim.crc = FactoryRows[l]
        BY <1>1, <2>1, <2>4 DEF CacheInv, ProgressInv, Prepared, UPDATE_BACKUP, TypeInv, PrimaryArrayKept
      <3>2. ASSUME Boots(t, "bak") PROVE FALSE
        <4>1. BootsFrom(media[l], "prim")
          BY <2>1, <2>2, <3>1, <3>2 DEF Boots, BootsFrom, Valid
        <4>2. media[l].prim.arr = FactoryRows[l]
          BY <2>1, <3>1, <4>1 DEF BootsFrom, Valid
        <4> QED BY <3>2, <4>1, <4>2, FactoryBootsMain
      <3> QED BY <2>4, <3>2
    <2> QED BY <1>1, <2>3, <2>4 DEF TypeInv, TypeOK, Copies
  <1>2. Init => CacheInv
    BY CacheInit
  <1>3. TypeInv /\ TypeInv' /\ VisitInv /\ CacheInv /\ [Next]_vars => CacheInv'
    BY CacheNext
  <1> QED BY <1>1, <1>2, <1>3, VisitCorrect, PTL DEF Spec

-----------------------------------------------------------------------------
(* A LUN without a pair: a stage that gets past the swap has found one.    *)
PairInv ==
    /\ NoBackupUntouched
    /\ pc \in {"chainRows", "corruptPrim", "corruptSec", "fixSec"} => BackupFound(FactoryRows[cur])

LEMMA PairInit == Init => PairInv
  BY DEF Init, PairInv, NoBackupUntouched

(* The states of a header in which UPDATE_BACKUP or UPDATE_FINALIZE writes *)
(* are not those of a table as shipped.                                    *)
LEMMA PairNext ==
    ASSUME OrderedWrites, "decay" \notin Faults, TypeInv, IInv, PairInv, [Next]_vars
    PROVE  PairInv'
  <1>0. /\ TypeOK /\ media = disk
        /\ pc \notin {"idle", "loop"} => cur \in Luns
    BY DEF TypeInv, IInv
  <1>1. \A l \in Luns : FactoryGpt(l).prim.st = "OK" /\ FactoryGpt(l).sec.st = "OK"
    BY DEF FactoryGpt
  <1>2. pc \in {"chainHeader", "chainRows", "corruptPrim", "fixPrim", "corruptSec", "fixSec"}
           /\ (pc = "chainHeader" /\ stage = UPDATE_MAIN => BackupFound(FactoryRows[cur]))
        => BackupFound(FactoryRows[cur])
    BY <1>0, <1>1 DEF PairInv, NoBackupUntouched, IInv, LabelInv, Headers
  <1>3. ASSUME BackupFound(FactoryRows[cur]), cur \in Luns,
               \A k \in Luns : k # cur => disk'[k] = disk[k],
               pc' \in {"chainRows", "corruptPrim", "corruptSec", "fixSec"} => cur' = cur
        PROVE  PairInv'
    BY <1>3 DEF PairInv, NoBackupUntouched
  <1>4. ASSUME UNCHANGED disk, pc' \notin {"chainRows", "corruptPrim", "corruptSec", "fixSec"}
        PROVE  PairInv'
    BY <1>4 DEF PairInv, NoBackupUntouched
  <1>5. CASE UNCHANGED vars
    BY <1>5 DEF vars, PairInv, NoBackupUntouched
  <1>6. CASE \/ \E s \in Stages : Call(s)
             \/ \E l \in Luns : Open(l) \/ OpenFails(l)
             \/ CheckState \/ SwitchXbl \/ ChainArrayBad \/ ChainNoBackup \/ Exit \/ Return
    BY <1>4, <1>6 DEF Call, Open, OpenFails, CheckState, CheckRefused, CheckAlreadySet, CheckReady,
       SwitchXbl, ChainArrayBad, ChainNoBackup, Exit, Return, Goto, ExitWith, FirstWrite, tables
  <1>7. CASE ChainHeader \/ ChainRows \/ SetStateStep
    <2>1. BackupFound(FactoryRows[cur]) /\ cur \in Luns
      BY <1>0, <1>2, <1>7 DEF ChainHeader, ChainRows, SetStateStep, CorruptPrimary, FixPrimary,
         CorruptSecondary, FixSecondary, TypeInv, PrimaryArrayKept
    <2>2. cur' = cur /\ \A k \in Luns : k # cur => disk'[k] = disk[k]
      BY <1>0, <1>7, <2>1 DEF ChainHeader, ChainRows, SetStateStep, CorruptPrimary, FixPrimary,
         CorruptSecondary, FixSecondary, SetState, Write, Goto, TypeOK
    <2> QED BY <1>3, <2>1, <2>2
  <1>8. CASE IoError \/ Kill \/ PowerLoss
    <2>1. pc' \in {"idle", "exit"}
      BY <1>8 DEF IoError, Kill, PowerLoss, ExitWith, Interrupted
    <2>2. CASE disk' = disk
      BY <1>4, <2>1, <2>2
    <2>3. CASE disk' # disk
      <3>1. pc = "chainRows" /\ \A k \in Luns : k # cur => disk'[k] = disk[k]
        BY <1>0, <1>8, <2>3 DEF IoError, Kill, PowerLoss, Write, tables, TypeOK
      <3> QED BY <1>0, <1>2, <1>3, <2>1, <3>1
    <2> QED BY <2>2, <2>3
  <1>9. ASSUME NEW t \in Targets, BeginWrite(t) \/ EndWrite(t) PROVE PairInv'
    BY <1>9 DEF BeginWrite, EndWrite, tables, frame, PairInv, NoBackupUntouched
  <1>10. /\ ~ChainRowsShort
         /\ \A l \in Luns, which \in {"prim", "sec"} : ~Flush(l, which) /\ ~Decay(l, which)
    BY DEF OrderedWrites, Flush, Decay, ChainRowsShort
  <1> QED
    BY <1>5, <1>6, <1>7, <1>8, <1>9, <1>10 DEF Next, CallStep, ChainStep, Environment

(* A LUN whose table has no pair to swap keeps both its tables, whatever   *)
(* stage is asked of it and whatever interrupts the others.                *)
THEOREM NoBackupUntouchedCorrect ==
    ASSUME OrderedWrites, "decay" \notin Faults
    PROVE  Spec => []NoBackupUntouched
  <1>1. TypeInv /\ IInv /\ PairInv /\ [Next]_vars => PairInv'
    BY PairNext
  <1>2. PairInv => NoBackupUntouched
    BY DEF PairInv
  <1> QED BY <1>1, <1>2, PairInit, SafetyInvariant, PTL DEF Spec

-----------------------------------------------------------------------------
(* The contents of the table a device boots from are never written to.     *)
THEOREM NeverRewritesBootingTableCorrect ==
    ASSUME OrderedWrites
    PROVE  Spec => NeverRewritesBootingTable
  <1>1. ASSUME TypeInv, IInv, [Next]_vars, NEW l \in Luns, NEW which \in {"prim", "sec"},
               pc # "idle", BootsFrom(media[l], which), ~UNCHANGED vars
        PROVE  media'[l][which].arr = media[l][which].arr /\ media'[l][which].crc = media[l][which].crc
    <2>0. /\ TypeOK /\ media = disk
          /\ pc \notin {"idle", "loop"} => cur \in Luns
          /\ l = cur => disk[cur].prim \in TableType /\ disk[cur].sec \in TableType
      BY <1>1 DEF TypeInv, IInv, TypeOK, GptType
    <2>1. CASE media' = media
      BY <2>1
    <2>2. CASE ChainHeader \/ ChainRows \/ IoError \/ Kill \/ PowerLoss
      <3>1. CASE media' # media
        <4>1. pc \in {"chainHeader", "chainRows"} /\ cur \in Luns
          BY <2>0, <2>2, <3>1 DEF ChainHeader, ChainRows, IoError, Kill, PowerLoss, tables
        <4>2. PICK table : media' = [media EXCEPT ![cur]["sec"] = table]
          BY <2>0, <2>2, <3>1 DEF OrderedWrites, ChainHeader, ChainRows, IoError, Kill, PowerLoss,
             Write, tables
        <4>3. disk[cur].prim.st = "OK" /\ disk[cur].prim.crc = disk[cur].prim.arr
          <5>1. disk[cur].prim.st = "OK"
            BY <1>1, <4>1 DEF IInv, LabelInv, Headers
          <5>2. CASE pc = "chainHeader"
            BY <2>2, <3>1, <5>1, <5>2 DEF ChainHeader, ChainRows, IoError, Kill, PowerLoss, tables
          <5>3. CASE pc = "chainRows"
            BY <1>1, <4>1, <5>1, <5>3 DEF TypeInv, PrimaryArrayKept
          <5> QED BY <4>1, <5>2, <5>3
        <4>4. ~(l = cur /\ which = "sec")
          BY <1>1, <2>0, <4>3 DEF BootsFrom, Valid
        <4> QED BY <2>0, <4>1, <4>2, <4>4 DEF TypeOK, GptType
      <3> QED BY <2>1, <3>1
    <2>3. CASE SetStateStep
      <3>1. cur \in Luns
        BY <2>0, <2>3 DEF SetStateStep, CorruptPrimary, FixPrimary, CorruptSecondary, FixSecondary
      <3>2. PICK w \in {"prim", "sec"}, st \in States : SetState(cur, w, st)
        BY <2>3 DEF SetStateStep, CorruptPrimary, FixPrimary, CorruptSecondary, FixSecondary, States
      <3>3. media' = [media EXCEPT ![cur][w] = [disk[cur][w] EXCEPT !.st = st]]
        BY <3>2 DEF OrderedWrites, SetState, Write
      <3> QED BY <2>0, <3>1, <3>3 DEF TypeOK, GptType, TableType
    <2>4. CASE Exit
      BY <2>0, <2>4, <2>1 DEF Exit, TypeOK
    <2>5. CASE \/ \E s \in Stages : Call(s)
               \/ \E k \in Luns : Open(k) \/ OpenFails(k)
               \/ CheckState \/ SwitchXbl \/ ChainArrayBad \/ ChainNoBackup \/ Return
               \/ \E t \in Targets : BeginWrite(t) \/ EndWrite(t)
      BY <2>1, <2>5 DEF Call, Open, OpenFails, CheckState, CheckRefused, CheckAlreadySet, CheckReady,
         SwitchXbl, ChainArrayBad, ChainNoBackup, Return, BeginWrite, EndWrite, tables
    <2>6. /\ ~ChainRowsShort
          /\ \A k \in Luns, w \in {"prim", "sec"} : ~Flush(k, w) /\ ~Decay(k, w)
      BY <1>1 DEF OrderedWrites, Flush, Decay, ChainRowsShort
    <2> QED BY <1>1, <2>2, <2>3, <2>4, <2>5, <2>6 DEF Next, CallStep, ChainStep, Environment
  <1>2. TypeInv /\ IInv /\ [Next]_vars =>
          [\A l \in Luns, which \in {"prim", "sec"} :
              pc # "idle" /\ BootsFrom(media[l], which) =>
                 /\ media'[l][which].arr = media[l][which].arr
                 /\ media'[l][which].crc = media[l][which].crc]_vars
    BY <1>1
  <1> QED BY <1>2, SafetyInvariant, PTL DEF Spec, NeverRewritesBootingTable
=============================================================================
