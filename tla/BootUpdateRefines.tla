------------------------- MODULE BootUpdateRefines -------------------------
(***************************************************************************)
(* The tables implement the abstract failsafe update; and so does the      *)
(* whole device, with the boot LUN of xbl, driven by the updater of        *)
(* BootUpdateRetry, until the first fault.                                 *)
(***************************************************************************)
EXTENDS BootUpdateProofs, BootUpdateRetry

(* While no link is lost every call visits every LUN that holds a backup,  *)
(* and no image of such a LUN is given up.                                 *)
AllListed ==
    /\ pc # "idle" \/ grant # "none" => lunList = UpdateLuns
    /\ exposed \cap UpdateLuns = {}

LEMMA ListedInit == Init => AllListed
  BY DEF Init, AllListed

LEMMA ListedNext ==
    ASSUME LinksResolve, AllListed, [Next]_vars
    PROVE  AllListed'
  <1>1. CASE UNCHANGED vars
    BY <1>1 DEF vars, AllListed
  <1>2. ASSUME NEW s \in Stages, Call(s) PROVE AllListed'
    BY <1>2, ListsAreLuns DEF Call, AllListed
  <1>3. ASSUME NEW t \in Targets, BeginWrite(t) \/ EndWrite(t) PROVE AllListed'
    BY <1>3 DEF BeginWrite, EndWrite, frame, AllListed
  <1>4. CASE \/ \E l \in Luns : Open(l) \/ OpenFails(l)
             \/ CheckState \/ SwitchXbl \/ ChainStep \/ SetStateStep \/ IoError \/ Exit
    <2>1. UNCHANGED <<lunList, exposed>> /\ pc # "idle"
      BY <1>4 DEF Open, OpenFails, CheckState, CheckRefused, CheckAlreadySet, CheckReady, SwitchXbl,
         ChainStep, ChainArrayBad, ChainNoBackup, ChainHeader, ChainRows, ChainRowsShort, SetStateStep,
         CorruptPrimary, FixPrimary, CorruptSecondary, FixSecondary, IoError, Exit, Goto, ExitWith
    <2> QED BY <2>1 DEF AllListed
  <1>5. CASE Return
    BY <1>5 DEF Return, AllListed
  <1>6. ASSUME NEW l \in Luns, NEW which \in {"prim", "sec"}, Flush(l, which) \/ Decay(l, which)
        PROVE  AllListed'
    BY <1>6 DEF Flush, Decay, frame, AllListed
  <1>7. CASE Kill \/ PowerLoss
    BY <1>7 DEF Kill, PowerLoss, Interrupted, AllListed
  <1> QED BY <1>1, <1>2, <1>3, <1>4, <1>5, <1>6, <1>7 DEF Next, CallStep, Environment

LEMMA NotExposed ==
    ASSUME OnlyXblSkipped, AllListed, NEW t \in TableTargets
    PROVE  t[1] \notin exposed
  BY TargetsVisited, TargetIsNotXbl DEF TableTargets, AllListed

LEMMA AllListedCorrect ==
    ASSUME LinksResolve
    PROVE  Spec => []AllListed
  BY ListedInit, ListedNext, PTL DEF Spec

-----------------------------------------------------------------------------
(* The refinement.  A target of a table boots one copy, by IInv; so does   *)
(* xbl, and what remains to be known is that this copy is usable.          *)
OneCopy ==
    \A t \in Targets :
        /\ BootedCopy(t) \in Copies
        /\ <<t, BootedCopy(t)>> \notin torn
        /\ grant # "none" => BootedCopy(t) # grant

XblCopy == IF bootLun = "A" THEN "main" ELSE "bak"

XblReady == <<XblTarget, XblCopy>> \notin torn /\ grant # XblCopy

LEMMA XblBooted ==
    ASSUME TypeInv
    PROVE  BootedCopy(XblTarget) = XblCopy /\ XblCopy \in Copies /\ Boots(XblTarget, XblCopy)
  <1>1. \A c \in Copies : Boots(XblTarget, c) <=> c = XblCopy
    BY DEF Boots, XblCopy, Copies, TypeInv, TypeOK
  <1> QED BY <1>1 DEF BootedCopy, XblCopy, Copies

LEMMA OneCopyBoots ==
    ASSUME OrderedWrites, TypeInv, IInv, AllListed, UsesXbl => XblReady
    PROVE  OneCopy
  <1> SUFFICES ASSUME NEW t \in Targets
               PROVE  /\ BootedCopy(t) \in Copies
                      /\ <<t, BootedCopy(t)>> \notin torn
                      /\ grant # "none" => BootedCopy(t) # grant
    BY DEF OneCopy
  <1>1. CASE UsesXbl /\ t = XblTarget
    BY <1>1, XblBooted DEF XblReady
  <1>2. CASE t \in TableTargets
    <2>1. PICK l \in Luns : t \in LunTargets(l)
      BY <1>2 DEF TableTargets
    <2>0. l \in UpdateLuns /\ l \notin exposed /\ t[1] = l
      BY <2>1, TargetsVisited, TargetIsNotXbl DEF OrderedWrites, AllListed
    <2>2. PICK c \in Copies : Intact(l, c) /\ \A d \in Copies : Boots(t, d) <=> d = c
      BY <2>1, OneChain
    <2>3. BootedCopy(t) = c
      BY <2>2 DEF BootedCopy
    <2>4. grant # "none" => ~Boots(t, grant)
      BY <1>2, <2>0, SafetyFromInv DEF SafeToWrite, AllListed
    <2> QED BY <2>0, <2>1, <2>2, <2>3, <2>4 DEF Intact
  <1> QED BY <1>1, <1>2 DEF Targets

LEMMA AbstractInit ==
    ASSUME OrderedWrites, TypeInv, IInv, Init
    PROVE  Abstract!Init
  <1>1. ASSUME NEW t \in TableTargets PROVE BootedCopy(t) = "main"
    <2>1. PICK l \in Luns : t \in LunTargets(l)
      BY DEF TableTargets
    <2>2. BootsFrom(media[l], "prim") /\ media[l].prim.arr = FactoryRows[l]
      BY DEF Init, FactoryGpt, BootsFrom, Valid
    <2>3. Boots(t, "main") /\ ~Boots(t, "bak")
      BY <2>1, <2>2, FactoryBootsMain DEF OrderedWrites
    <2> QED BY <2>3 DEF BootedCopy, Copies
  <1>2. BootedCopy(XblTarget) = "main"
    BY XblBooted DEF Init, XblCopy
  <1>3. "main" \in Copies /\ [t \in Targets |-> BootedCopy(t)] = [t \in Targets |-> "main"]
    BY <1>1, <1>2 DEF Copies, Targets
  <1> QED BY <1>3 DEF Abstract!Init, Init

(* A step that leaves the images alone switches towards intact copies; one *)
(* that writes an image leaves the tables alone.                           *)
LEMMA AbstractNext ==
    ASSUME TypeInv, OneCopy, OneCopy', [Next]_vars
    PROVE  [Abstract!Next]_(Abstract!vars)
  <1>1. \A t \in Targets : BootedCopy(t)' \in Copies /\ <<t, BootedCopy(t)'>> \notin torn'
    BY DEF OneCopy
  <1>2. CASE UNCHANGED torn
    <2>1. [t \in Targets |-> BootedCopy(t)]' \in [Targets -> Copies]
      BY <1>1
    <2>2. Abstract!Switch
      BY <1>1, <1>2, <2>1 DEF Abstract!Switch
    <2> QED BY <2>2 DEF Abstract!Next
  <1>3. ASSUME NEW t \in Targets, BeginWrite(t) \/ EndWrite(t)
        PROVE  Abstract!Next
    <2>1. UNCHANGED <<media, bootLun>> /\ grant # "none" /\ grant \in Copies
      BY <1>3 DEF BeginWrite, EndWrite, tables, TypeInv, TypeOK
    <2>2. \A u \in Targets : BootedCopy(u)' = BootedCopy(u)
      BY <2>1 DEF BootedCopy, Boots
    <2>3. BootedCopy(t) # grant
      BY <2>1 DEF OneCopy
    <2>4. Abstract!BeginWrite(t, grant) \/ Abstract!EndWrite(t, grant)
      BY <1>3, <2>1, <2>2, <2>3 DEF BeginWrite, EndWrite, Abstract!BeginWrite, Abstract!EndWrite
    <2> QED BY <2>1, <2>4 DEF Abstract!Next
  <1>4. UNCHANGED torn \/ \E t \in Targets : BeginWrite(t) \/ EndWrite(t)
    BY DEF Next, CallStep, CheckState, ChainStep, SetStateStep, Environment, vars, Call, Open,
       OpenFails, CheckRefused, CheckAlreadySet, CheckReady, SwitchXbl, ChainArrayBad, ChainNoBackup,
       ChainHeader, ChainRows, ChainRowsShort, CorruptPrimary, FixPrimary, CorruptSecondary,
       FixSecondary, IoError, Exit, Return, Flush, Decay, Kill, PowerLoss, Interrupted
  <1> QED BY <1>2, <1>3, <1>4

(* Without the boot LUN query, and while every call finds all its LUNs,    *)
(* the code implements the abstract update, for any number of LUNs,        *)
(* whichever of them a fault leaves behind.                                *)
THEOREM RefinementCorrect ==
    ASSUME OrderedWrites, LinksResolve, ~UsesXbl
    PROVE  Spec => ImplementsFailsafeUpdate
  <1>1. TypeInv /\ IInv /\ Init => Abstract!Init
    BY AbstractInit
  <1>2. TypeInv /\ IInv /\ AllListed => OneCopy
    BY OneCopyBoots
  <1>3. TypeInv /\ OneCopy /\ OneCopy' /\ [Next]_vars => [Abstract!Next]_(Abstract!vars)
    BY AbstractNext
  <1> QED BY <1>1, <1>2, <1>3, SafetyInvariant, AllListedCorrect, PTL
      DEF Spec, ImplementsFailsafeUpdate, Abstract!Spec

(* And then every target boots a complete image, always.                   *)
THEOREM FailsafeAllCorrect ==
    ASSUME OrderedWrites, LinksResolve, ~UsesXbl
    PROVE  Spec => []Failsafe
  <1>1. TypeInv /\ IInv /\ AllListed => Failsafe
    BY SafetyFromInv, NotExposed DEF Failsafe, FailsafeTables, Targets, OrderedWrites
  <1> QED BY <1>1, SafetyInvariant, AllListedCorrect, PTL

-----------------------------------------------------------------------------
(* The updater of BootUpdateRetry.  It asks for the stages of BootUpdate   *)
(* in their order, so its steps are steps of BootUpdate.                   *)
RetryType == next \in Stages /\ faults \in Nat

LEMMA RetryIsNext ==
    ASSUME RetryType, [RetryNext]_retryVars
    PROVE  [Next]_vars
  <1>1. CASE UNCHANGED retryVars \/ SkipStage
    BY <1>1 DEF retryVars, SkipStage
  <1>2. CASE StartStage
    BY <1>2 DEF StartStage, RetryType, Next, Environment
  <1>3. CASE StageReturns \/ StageStep
    BY <1>3 DEF StageReturns, StageStep, Next, CallStep
  <1>4. ASSUME NEW t \in Targets, WriteImage(t) PROVE Next
    BY <1>4 DEF WriteImage, Next, Environment
  <1>5. CASE Fault
    BY <1>5 DEF Fault, Next, CallStep, Environment
  <1> QED BY <1>1, <1>2, <1>3, <1>4, <1>5 DEF RetryNext, Progress

LEMMA FaultsCounted ==
    ASSUME [RetryNext]_retryVars
    PROVE  /\ next' \in {next, Following(next), UPDATE_MAIN}
           /\ faults' = faults + 1 \/ (faults' = faults /\ (Progress \/ UNCHANGED retryVars))
  <1>1. CASE Fault
    BY <1>1 DEF Fault
  <1>2. CASE Progress \/ UNCHANGED retryVars
    BY <1>2 DEF Progress, StartStage, SkipStage, StageReturns, StageStep, WriteImage, retryVars
  <1> QED BY <1>1, <1>2 DEF RetryNext

LEMMA RetryTypeNext ==
    ASSUME RetryType, [RetryNext]_retryVars
    PROVE  RetryType'
  <1>1. Following(next) \in Stages
    BY DEF RetryType, Following, Stages, UPDATE_MAIN, UPDATE_BACKUP, UPDATE_FINALIZE
  <1>2. UPDATE_MAIN \in Stages
    BY DEF Stages
  <1> QED BY <1>1, <1>2, FaultsCounted DEF RetryType

LEMMA RetrySafety ==
    ASSUME OrderedWrites, LinksResolve
    PROVE  RetrySpec => [](RetryType /\ TypeInv /\ IInv /\ AllListed)
  <1>1. RetryInit => RetryType /\ TypeInv /\ IInv /\ AllListed
    BY TypeInvInit, IInvInit, ListedInit DEF RetryInit, RetryType, Stages
  <1>2. RetryType /\ TypeInv /\ IInv /\ AllListed /\ [RetryNext]_retryVars
           => RetryType' /\ TypeInv' /\ IInv' /\ AllListed'
    BY RetryIsNext, RetryTypeNext, TypeInvNext, IInvNext, ListedNext
  <1> QED BY <1>1, <1>2, PTL DEF RetrySpec

-----------------------------------------------------------------------------
(* Before the first fault.  The headers of a LUN say which stage is next;  *)
(* those of a LUN with nothing to swap always say UPDATE_MAIN, and the two *)
(* other stages are refused on it.                                         *)
Ready(l, s) ==
    /\ disk[l].prim.arr = FactoryRows[l]
    /\ LET at == IF BackupFound(FactoryRows[l]) THEN s ELSE UPDATE_MAIN
       IN  /\ disk[l].prim.st = IF at = UPDATE_BACKUP THEN "BAD_SIGNATURE" ELSE "OK"
           /\ disk[l].sec.st = IF at = UPDATE_FINALIZE THEN "BAD_SIGNATURE" ELSE "OK"

(* What each label knows of the current LUN.                               *)
LabelOnTrack ==
    /\ pc = "check" => Ready(cur, stage)
    /\ pc \notin {"idle", "loop"} => disk[cur].prim.arr = FactoryRows[cur]
    /\ pc \in {"chainRows", "corruptPrim", "fixPrim", "corruptSec", "fixSec"}
          => BackupFound(FactoryRows[cur])
    /\ pc \in {"xbl", "chainHeader"} /\ stage # UPDATE_MAIN => BackupFound(FactoryRows[cur])
    /\ pc = "exit" => Ready(cur, next)

OnTrack ==
    /\ pc = "idle" => \A l \in UpdateLuns : Ready(l, next)
    /\ pc # "idle" =>
          /\ next = Following(stage)
          /\ \A l \in UpdateLuns \ todo : Ready(l, next)
          /\ \A l \in todo : pc = "loop" \/ l # cur => Ready(l, stage)
    /\ LabelOnTrack

(* Images are incomplete only where the updater has still to write.        *)
WritingOnly ==
    /\ left # {} => pc = "idle" /\ grant # "none"
    /\ torn \subseteq left \X {grant}

(* The boot LUN follows the tables: a stage that has visited a LUN without *)
(* an error has switched it.                                               *)
XblFollows ==
    /\ grant = "main" => bootLun = "B"
    /\ grant = "bak" => bootLun = "A"
    /\ /\ pc # "idle" /\ stage = UPDATE_MAIN
       /\ todo # UpdateLuns \/ pc \notin {"loop", "check", "xbl"}
       => bootLun = "B"
    /\ /\ pc # "idle" /\ stage = UPDATE_BACKUP
       /\ \/ ~isError /\ todo # UpdateLuns
          \/ pc \in {"fixPrim", "corruptSec"}
          \/ pc = "exit" /\ r = 0
       => bootLun = "A"

UndisturbedInv == OnTrack /\ WritingOnly /\ (UsesXbl => XblFollows)

LEMMA ReadyStage ==
    ASSUME NEW l \in Luns, NEW s \in Stages, Ready(l, s)
    PROVE  /\ BackupFound(FactoryRows[l]) => InternalStage(disk[l]) = s
           /\ ~BackupFound(FactoryRows[l]) =>
                 InternalStage(disk[l]) = UPDATE_MAIN /\ \A u \in Stages : Ready(l, u)
  BY DEF Ready, InternalStage, Stages, UPDATE_MAIN, UPDATE_BACKUP, UPDATE_FINALIZE

LEMMA ReadyUnchanged ==
    ASSUME NEW l, disk'[l] = disk[l]
    PROVE  \A s : Ready(l, s)' = Ready(l, s)
  BY DEF Ready

LEMMA UndisturbedInit == Init /\ next = UPDATE_MAIN /\ left = {} => UndisturbedInv
  <1> SUFFICES ASSUME Init, next = UPDATE_MAIN, left = {} PROVE UndisturbedInv
    OBVIOUS
  <1>1. \A l \in UpdateLuns : Ready(l, UPDATE_MAIN)
    BY DEF Init, FactoryGpt, UpdateLuns, Ready, UPDATE_MAIN, UPDATE_BACKUP, UPDATE_FINALIZE
  <1> QED BY <1>1 DEF Init, UndisturbedInv, OnTrack, LabelOnTrack, WritingOnly, XblFollows

(* A step at a label of a call, on the current LUN only.                   *)
LEMMA OnTrackStep ==
    ASSUME OnTrack, todo \subseteq Luns, pc \notin {"idle", "loop"}, pc' \notin {"idle", "loop"},
           UNCHANGED <<stage, todo, cur, next>>, cur \in todo,
           \A k \in Luns : k # cur => disk'[k] = disk[k],
           LabelOnTrack'
    PROVE  OnTrack'
  <1>1. \A k \in Luns : k # cur => \A s : Ready(k, s)' = Ready(k, s)
    BY ReadyUnchanged
  <1>2. \A l \in UpdateLuns \ todo : Ready(l, next)'
    BY <1>1 DEF OnTrack, UpdateLuns
  <1>3. \A l \in todo : l # cur => Ready(l, stage)'
    BY <1>1 DEF OnTrack
  <1> QED BY <1>2, <1>3 DEF OnTrack

LEMMA OnTrackNext ==
    ASSUME OrderedWrites, LinksResolve, RetryType, TypeInv, IInv, UndisturbedInv, Progress
    PROVE  OnTrack'
  <1> USE DEF UndisturbedInv
  <1>0. /\ TypeOK /\ UpdateLuns \subseteq Luns /\ todo \subseteq Luns
        /\ pc # "idle" => stage \in Stages /\ next = Following(stage)
        /\ pc \notin {"idle", "loop"} => cur \in Luns /\ cur \in todo
        /\ pc \notin {"idle", "loop"} => disk[cur].prim.crc = FactoryRows[cur]
    BY DEF TypeInv, TypeOK, IInv, CallInv, OnTrack, UpdateLuns, PrimaryArrayKept
  <1>1. CASE StartStage
    <2>1. /\ pc' = "loop" /\ stage' = next /\ todo' = UpdateLuns /\ next' = Following(next)
          /\ disk' = disk /\ pc = "idle"
      BY <1>1, ListsAreLuns DEF StartStage, Call, tables
    <2> QED BY <2>1 DEF OnTrack, LabelOnTrack, Ready
  <1>2. ~SkipStage
    BY DEF SkipStage, WritingOnly, ImagesReady
  <1>3. CASE StageReturns
    <2>1. pc = "loop" /\ todo = {} /\ pc' = "idle" /\ next' = next /\ disk' = disk
      BY <1>3 DEF StageReturns, Return, tables
    <2> QED BY <2>1 DEF OnTrack, LabelOnTrack, Ready
  <1>4. ASSUME NEW t \in Targets, WriteImage(t) PROVE OnTrack'
    <2>1. UNCHANGED <<disk, frame, next>> /\ pc = "idle"
      BY <1>4 DEF WriteImage, BeginWrite, EndWrite, tables
    <2> QED BY <2>1 DEF frame, OnTrack, LabelOnTrack, Ready
  <1>5. ASSUME StageStep PROVE OnTrack'
    <2>0. next' = next
      BY <1>5 DEF StageStep
    <2>1. ASSUME NEW l \in Luns, Open(l) PROVE OnTrack'
      <3>1. /\ pc = "loop" /\ pc' = "check" /\ cur' = l /\ l \in todo
            /\ UNCHANGED <<disk, stage, todo>>
        BY <2>1 DEF Open, tables
      <3>2. Ready(l, stage)
        BY <3>1 DEF OnTrack
      <3> QED BY <2>0, <3>1, <3>2 DEF OnTrack, LabelOnTrack, Ready
    (* The state of the current LUN at the check.                          *)
    <2>2. CASE CheckState
      <3>1. /\ pc = "check" /\ Ready(cur, stage) /\ disk' = disk
            /\ UNCHANGED <<stage, todo, cur>>
        BY <2>2 DEF CheckState, CheckRefused, CheckAlreadySet, CheckReady, ExitWith, Goto, tables,
           OnTrack, LabelOnTrack
      <3>2. /\ BackupFound(FactoryRows[cur]) => InternalStage(disk[cur]) = stage
            /\ ~BackupFound(FactoryRows[cur]) =>
                  InternalStage(disk[cur]) = UPDATE_MAIN /\ Ready(cur, next)
        <4>1. next \in Stages
          BY DEF RetryType
        <4> QED BY <1>0, <3>1, <4>1, ReadyStage
      <3>3. LabelOnTrack' /\ pc' \notin {"idle", "loop"}
        <4>1. CASE CheckRefused
          <5>1. ~BackupFound(FactoryRows[cur])
            BY <1>0, <3>1, <3>2, <4>1
            DEF CheckRefused, Stages, UPDATE_MAIN, UPDATE_BACKUP, UPDATE_FINALIZE
          <5> QED BY <2>0, <3>1, <3>2, <4>1, <5>1 DEF CheckRefused, ExitWith, LabelOnTrack, Ready
        <4>2. ~CheckAlreadySet
          BY <1>0, <3>1, <3>2
          DEF CheckAlreadySet, Stages, UPDATE_MAIN, UPDATE_BACKUP, UPDATE_FINALIZE
        <4>3. CASE CheckReady
          <5>1. stage # UPDATE_MAIN => BackupFound(FactoryRows[cur])
            BY <3>2, <4>3 DEF CheckReady
          <5>2. /\ pc' \in {"xbl", "fixPrim", "chainHeader"}
                /\ pc' = "fixPrim" => stage # UPDATE_MAIN
            BY <4>3 DEF CheckReady, Goto, FirstWrite, UPDATE_MAIN, UPDATE_BACKUP
          <5> QED BY <2>0, <3>1, <5>1, <5>2 DEF LabelOnTrack, Ready
        <4> QED BY <2>2, <4>1, <4>2, <4>3 DEF CheckState
      <3> QED BY <1>0, <2>0, <3>1, <3>3, OnTrackStep
    <2>3. CASE SwitchXbl
      <3>1. /\ pc = "xbl" /\ pc' \in {"chainHeader", "fixPrim"} /\ disk' = disk
            /\ UNCHANGED <<stage, todo, cur>> /\ (pc' = "fixPrim" => stage # UPDATE_MAIN)
        BY <2>3 DEF SwitchXbl, Goto, tables
      <3>2. LabelOnTrack'
        BY <3>1 DEF OnTrack, LabelOnTrack
      <3> QED BY <1>0, <2>0, <3>1, <3>2, OnTrackStep
    <2>4. CASE ChainStep
      <3>1. /\ pc \in {"chainHeader", "chainRows"} /\ disk[cur].prim.arr = FactoryRows[cur]
            /\ cur \in Luns
        BY <1>0, <2>4 DEF ChainStep, ChainArrayBad, ChainNoBackup, ChainHeader, ChainRows,
           ChainRowsShort, OnTrack, LabelOnTrack
      <3>2. ~ChainArrayBad
        BY <1>0, <3>1 DEF ChainArrayBad
      <3>3. ~ChainRowsShort
        BY DEF ChainRowsShort, OrderedWrites
      <3>4. /\ UNCHANGED <<stage, todo, cur>> /\ disk'[cur].prim = disk[cur].prim
            /\ \A k \in Luns : k # cur => disk'[k] = disk[k]
            /\ pc' \in {"exit", "chainRows", "corruptPrim", "fixSec"}
        BY <1>0, <2>4, <3>1, <3>2, <3>3 DEF ChainStep, ChainNoBackup, ChainHeader, ChainRows,
           Goto, ExitWith, AfterChain, Write, tables, TypeOK, GptType
      <3>5. CASE ChainNoBackup
        <4>1. ~BackupFound(FactoryRows[cur]) /\ disk' = disk /\ pc' = "exit"
          BY <3>1, <3>5 DEF ChainNoBackup, ExitWith, tables
        <4>2. disk[cur].prim.st = "OK" /\ disk[cur].sec.st = "OK"
          BY <3>5 DEF ChainNoBackup, IInv, LabelInv, Headers, UPDATE_MAIN, UPDATE_FINALIZE
        <4> QED BY <1>0, <2>0, <3>1, <3>4, <4>1, <4>2, OnTrackStep
            DEF LabelOnTrack, Ready, UPDATE_MAIN, UPDATE_BACKUP, UPDATE_FINALIZE
      <3>6. CASE ChainHeader \/ ChainRows
        <4>1. BackupFound(FactoryRows[cur]) /\ pc' \in {"chainRows", "corruptPrim", "fixSec"}
          BY <3>1, <3>6 DEF ChainHeader, ChainRows, Goto, AfterChain, OnTrack, LabelOnTrack
        <4> QED BY <1>0, <2>0, <3>1, <3>4, <4>1, OnTrackStep DEF LabelOnTrack
      <3> QED BY <2>4, <3>2, <3>3, <3>5, <3>6 DEF ChainStep
    (* gpt_set_state makes the LUN ready for the next stage.               *)
    <2>5. CASE SetStateStep
      <3>1. /\ pc \in {"corruptPrim", "fixPrim", "corruptSec", "fixSec"} /\ cur \in Luns
            /\ disk[cur].prim \in TableType /\ disk[cur].sec \in TableType
            /\ disk[cur].prim.arr = FactoryRows[cur] /\ BackupFound(FactoryRows[cur])
            /\ UNCHANGED <<stage, todo, cur>>
        BY <1>0, <2>5 DEF SetStateStep, CorruptPrimary, FixPrimary, CorruptSecondary, FixSecondary,
           Goto, OnTrack, LabelOnTrack, TypeOK, GptType
      <3>2. PICK which \in {"prim", "sec"}, st \in {"OK", "BAD_SIGNATURE"} :
             /\ SetState(cur, which, st)
             /\ \/ CorruptPrimary /\ which = "prim" /\ st = "BAD_SIGNATURE"
                \/ FixPrimary /\ which = "prim" /\ st = "OK"
                \/ CorruptSecondary /\ which = "sec" /\ st = "BAD_SIGNATURE"
                \/ FixSecondary /\ which = "sec" /\ st = "OK"
        BY <2>5 DEF SetStateStep, CorruptPrimary, FixPrimary, CorruptSecondary, FixSecondary
      <3>3. /\ disk'[cur][which].st = st /\ disk'[cur].prim.arr = FactoryRows[cur]
            /\ \A w \in {"prim", "sec"} : w # which => disk'[cur][w] = disk[cur][w]
            /\ \A k \in Luns : k # cur => disk'[k] = disk[k]
        BY <1>0, <3>1, <3>2 DEF SetState, Write, TypeOK, GptType, TableType
      <3>4. pc' = "exit" => Ready(cur, next)'
        BY <1>0, <2>0, <3>1, <3>2, <3>3 DEF CorruptPrimary, FixPrimary, CorruptSecondary, FixSecondary,
           Goto, IInv, LabelInv, Headers, Ready, Following, UPDATE_MAIN, UPDATE_BACKUP, UPDATE_FINALIZE
      <3>5. pc' \in {"exit", "corruptSec"}
        BY <3>2 DEF CorruptPrimary, FixPrimary, CorruptSecondary, FixSecondary, Goto
      <3>6. LabelOnTrack'
        BY <2>0, <3>1, <3>3, <3>4, <3>5 DEF LabelOnTrack
      <3> QED BY <1>0, <2>0, <3>1, <3>3, <3>5, <3>6, OnTrackStep
    <2>6. CASE Exit
      <3>1. /\ pc = "exit" /\ pc' = "loop" /\ todo' = todo \ {cur} /\ disk' = disk /\ stage' = stage
            /\ Ready(cur, next)
        BY <2>6 DEF Exit, OnTrack, LabelOnTrack
      <3> QED BY <2>0, <3>1 DEF OnTrack, LabelOnTrack, Ready
    <2> QED BY <1>5, <2>1, <2>2, <2>3, <2>4, <2>5, <2>6 DEF StageStep
  <1> QED BY <1>1, <1>2, <1>3, <1>4, <1>5 DEF Progress

LEMMA WritingNext ==
    ASSUME TypeInv, VisitInv, UndisturbedInv, Progress
    PROVE  WritingOnly'
  <1> USE DEF UndisturbedInv
  <1>1. CASE StartStage
    BY <1>1 DEF StartStage, Call, WritingOnly
  <1>2. CASE SkipStage
    BY <1>2 DEF SkipStage, vars, WritingOnly
  <1>3. CASE StageReturns
    BY <1>3 DEF StageReturns, Return, WritingOnly
  <1>4. CASE StageStep
    <2>1. pc # "idle" /\ left' = left /\ torn' = torn
      BY <1>4 DEF StageStep, Open, CheckState, CheckRefused, CheckAlreadySet, CheckReady, SwitchXbl,
         ChainStep, ChainArrayBad, ChainNoBackup, ChainHeader, ChainRows, ChainRowsShort,
         SetStateStep, CorruptPrimary, FixPrimary, CorruptSecondary, FixSecondary, Exit
    <2> QED BY <2>1 DEF WritingOnly
  <1>5. ASSUME NEW t \in Targets, WriteImage(t) PROVE WritingOnly'
    <2>1. pc' = pc /\ grant' = grant /\ t \in left
      BY <1>5 DEF WriteImage, BeginWrite, EndWrite, frame
    <2>2. \/ torn' = torn \cup {<<t, grant>>} /\ left' = left
          \/ torn' = torn \ {<<t, grant>>} /\ left' = left \ {t}
      BY <1>5 DEF WriteImage, BeginWrite, EndWrite
    <2> QED BY <2>1, <2>2 DEF WritingOnly
  <1> QED BY <1>1, <1>2, <1>3, <1>4, <1>5 DEF Progress

(* A stage switches the boot LUN for the first LUN it visits.  This is why *)
(* there has to be one.                                                    *)
LEMMA XblNext ==
    ASSUME OrderedWrites, LinksResolve, UpdateLuns # {}, UsesXbl, RetryType, TypeInv, IInv, UndisturbedInv, Progress
    PROVE  XblFollows'
  <1> USE DEF UndisturbedInv
  <1>0. /\ pc # "idle" => stage \in Stages /\ grant = "none"
        /\ pc \notin {"idle", "loop"} => cur \in todo /\ cur \in Luns
        /\ XblFollows
    BY DEF TypeInv, IInv, CallInv
  <1>1. CASE StartStage
    BY <1>1, ListsAreLuns DEF StartStage, Call, XblFollows
  <1>2. ~SkipStage
    BY DEF SkipStage, WritingOnly, ImagesReady
  <1>3. CASE StageReturns
    <2>1. /\ grant' = "main" => ~isError /\ stage = UPDATE_MAIN
          /\ grant' = "bak" => ~isError /\ stage = UPDATE_BACKUP
      BY <1>3 DEF StageReturns, Return, Granted
    <2> QED BY <1>3, <2>1 DEF StageReturns, Return, XblFollows
  <1>4. ASSUME NEW t \in Targets, WriteImage(t) PROVE XblFollows'
    BY <1>4 DEF WriteImage, BeginWrite, EndWrite, frame, XblFollows
  <1>5. ASSUME StageStep PROVE XblFollows'
    <2>1. ASSUME NEW l \in Luns, Open(l) PROVE XblFollows'
      BY <1>0, <2>1 DEF Open, XblFollows
    <2>2. CASE CheckState
      <3>1. /\ BackupFound(FactoryRows[cur]) => InternalStage(disk[cur]) = stage
            /\ ~BackupFound(FactoryRows[cur]) => InternalStage(disk[cur]) = UPDATE_MAIN
        BY <1>0, <2>2, ReadyStage DEF CheckState, CheckRefused, CheckAlreadySet, CheckReady,
           OnTrack, LabelOnTrack
      <3>2. ~CheckAlreadySet
        BY <1>0, <3>1
        DEF CheckAlreadySet, Stages, UPDATE_MAIN, UPDATE_BACKUP, UPDATE_FINALIZE
      <3>3. CASE CheckRefused
        <4>1. stage # UPDATE_MAIN
          BY <1>0, <3>1, <3>3
          DEF CheckRefused, Stages, UPDATE_MAIN, UPDATE_BACKUP, UPDATE_FINALIZE
        <4> QED BY <1>0, <3>3, <4>1 DEF CheckRefused, ExitWith, XblFollows
      <3>4. CASE CheckReady
        BY <1>0, <3>4 DEF CheckReady, Goto, FirstWrite, XblFollows,
           UPDATE_MAIN, UPDATE_BACKUP, UPDATE_FINALIZE
      <3> QED BY <2>2, <3>2, <3>3, <3>4 DEF CheckState
    <2>3. CASE SwitchXbl
      BY <1>0, <2>3 DEF SwitchXbl, Goto, XblFollows, UPDATE_MAIN, UPDATE_BACKUP
    <2>4. CASE ChainStep \/ SetStateStep
      <3>1. /\ pc \in {"chainHeader", "chainRows", "corruptPrim", "fixPrim", "corruptSec", "fixSec"}
            /\ UNCHANGED <<stage, todo, isError, grant, bootLun>> /\ pc' \notin {"idle", "loop"}
            /\ stage = UPDATE_BACKUP => pc \in {"fixPrim", "corruptSec"}
        BY <2>4 DEF ChainStep, ChainArrayBad, ChainNoBackup, ChainHeader, ChainRows, ChainRowsShort,
           SetStateStep, CorruptPrimary, FixPrimary, CorruptSecondary, FixSecondary, Goto, ExitWith,
           AfterChain, IInv, LabelInv, UPDATE_MAIN, UPDATE_BACKUP, UPDATE_FINALIZE
      <3> QED BY <1>0, <3>1 DEF XblFollows, UPDATE_MAIN, UPDATE_BACKUP
    <2>5. CASE Exit
      BY <1>0, <2>5 DEF Exit, XblFollows
    <2> QED BY <1>5, <2>1, <2>2, <2>3, <2>4, <2>5 DEF StageStep
  <1> QED BY <1>1, <1>2, <1>3, <1>4, <1>5 DEF Progress

UntilFault == faults = 0 => UndisturbedInv

(* The counter of the faults tells whether the step was one.               *)
LEMMA UntilFaultNext ==
    ASSUME OrderedWrites, LinksResolve, BootLunHasLuns, RetryType, TypeInv, VisitInv, IInv, UntilFault,
           [RetryNext]_retryVars
    PROVE  UntilFault'
  <1>1. CASE UNCHANGED retryVars
    BY <1>1 DEF retryVars, vars, UntilFault, UndisturbedInv, OnTrack, LabelOnTrack, Ready,
       WritingOnly, XblFollows
  <1>2. CASE Fault
    BY <1>2 DEF Fault, RetryType, UntilFault
  <1>3. CASE Progress
    <2>1. faults' = faults
      BY <1>3 DEF Progress, StartStage, SkipStage, StageReturns, StageStep, WriteImage
    <2>2. CASE faults = 0
      <3>1. UndisturbedInv
        BY <2>2 DEF UntilFault
      <3>2. OnTrack' /\ WritingOnly'
        BY <1>3, <3>1, OnTrackNext, WritingNext
      <3>3. UsesXbl => XblFollows'
        BY <1>3, <3>1, XblNext DEF BootLunHasLuns
      <3> QED BY <3>2, <3>3 DEF UntilFault, UndisturbedInv, UsesXbl
    <2> QED BY <2>1, <2>2 DEF UntilFault
  <1> QED BY <1>1, <1>2, <1>3 DEF RetryNext

LEMMA UntilFaultCorrect ==
    ASSUME OrderedWrites, LinksResolve, BootLunHasLuns
    PROVE  RetrySpec => [](RetryType /\ TypeInv /\ IInv /\ AllListed /\ UntilFault)
  <1>1. RetryInit => VisitInv /\ UntilFault
    BY VisitInit, UndisturbedInit DEF RetryInit, UntilFault
  <1>2. RetryType /\ TypeInv /\ VisitInv /\ [RetryNext]_retryVars => VisitInv'
    BY RetryIsNext, VisitNext
  <1>3. RetryType /\ TypeInv /\ VisitInv /\ IInv /\ UntilFault /\ [RetryNext]_retryVars
           => UntilFault'
    BY UntilFaultNext
  <1> QED BY <1>1, <1>2, <1>3, RetrySafety, PTL DEF RetrySpec

(* Until the first fault xbl, too, boots a copy that is complete and that  *)
(* the updater does not write.                                             *)
LEMMA UndisturbedOneCopy ==
    ASSUME OrderedWrites, TypeInv, IInv, AllListed, UntilFault, faults = 0
    PROVE  OneCopy
  <1>1. UsesXbl => XblReady
    <2>1. UsesXbl => XblFollows /\ WritingOnly
      BY DEF UntilFault, UndisturbedInv
    <2>2. grant \in {"main", "bak", "none"} /\ XblCopy # "none" /\ bootLun \in {"A", "B"}
      BY DEF TypeInv, TypeOK, Copies, XblCopy
    <2>3. UsesXbl => grant # XblCopy
      BY <2>1, <2>2 DEF XblFollows, XblCopy
    <2> QED BY <2>1, <2>3 DEF WritingOnly, XblReady
  <1> QED BY <1>1, OneCopyBoots

OneCopyUntilFault == faults = 0 => OneCopy

(* Until the first fault every target, xbl included, boots a complete      *)
(* image, on any number of LUNs, some of which may have nothing to swap.   *)
THEOREM FailsafeUntilFaultCorrect ==
    ASSUME OrderedWrites, LinksResolve, BootLunHasLuns
    PROVE  RetrySpec => []FailsafeUntilFault
  <1>1. ASSUME TypeInv, IInv, AllListed, UntilFault PROVE FailsafeUntilFault
    <2> SUFFICES ASSUME faults = 0, NEW t \in Targets PROVE BootsIntact(t)
      BY DEF FailsafeUntilFault, Failsafe
    <2>1. BootedCopy(t) \in Copies /\ <<t, BootedCopy(t)>> \notin torn
      BY <1>1, UndisturbedOneCopy DEF OneCopy
    <2>2. Boots(t, BootedCopy(t))
      <3>1. CASE t = XblTarget
        BY <1>1, <3>1, XblBooted
      <3>2. CASE t \in TableTargets
        BY <1>1, <3>2, SafetyFromInv, NotExposed
        DEF FailsafeTables, BootsIntact, BootedCopy, OrderedWrites
      <3> QED BY <3>1, <3>2 DEF Targets
    <2> QED BY <2>1, <2>2 DEF BootsIntact
  <1> QED BY <1>1, UntilFaultCorrect, PTL

(* Until the first fault the switch of the boot LUN and the writes to the  *)
(* tables of all the LUNs together implement the abstract failsafe update. *)
THEOREM ImplementsUntilFaultCorrect ==
    ASSUME OrderedWrites, LinksResolve, BootLunHasLuns
    PROVE  RetrySpec => ImplementsUntilFault
  <1>1. RetryInit => Abstract!Init
    BY AbstractInit, TypeInvInit, IInvInit DEF RetryInit
  <1>2. TypeInv /\ IInv /\ AllListed /\ UntilFault => OneCopyUntilFault
    BY UndisturbedOneCopy DEF OneCopyUntilFault
  <1>3. ASSUME RetryType, TypeInv, OneCopyUntilFault, RetryType', OneCopyUntilFault',
               [RetryNext]_retryVars
        PROVE  [faults' > 0 \/ Abstract!Next]_(Abstract!vars)
    <2>1. CASE faults' > 0
      BY <2>1
    <2>2. CASE faults' = 0
      <3>1. faults = 0
        BY <1>3, <2>2, FaultsCounted DEF RetryType
      <3>2. OneCopy /\ OneCopy'
        BY <1>3, <2>2, <3>1 DEF OneCopyUntilFault
      <3>3. [Next]_vars
        BY <1>3, RetryIsNext
      <3> QED BY <1>3, <3>2, <3>3, AbstractNext
    <2> QED BY <1>3, <2>1, <2>2 DEF RetryType
  <1> QED BY <1>1, <1>2, <1>3, UntilFaultCorrect, PTL DEF RetrySpec, ImplementsUntilFault

=============================================================================
