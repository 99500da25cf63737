-------------------------- MODULE AudioPolicyProofs --------------------------
(***************************************************************************)
(* Safety of the audio policy manager, for every configuration, every set  *)
(* of sessions and record clients and everything they may ask for.         *)
(***************************************************************************)
EXTENDS AudioPolicy, FiniteSetTheorems, TLAPS

(* What the proofs use of the assumptions.                                 *)
LEMMA Bounds ==
    /\ MaxTracks \in Nat /\ MaxTracks > 0
    /\ Handles \subseteq Nat
    /\ \A o \in OutputType : o # NoOutput
  BY AudioPolicyAssumption DEF OutputType

-----------------------------------------------------------------------------
(* The playback state: the types are not inductive without the count of    *)
(* the tracks, which bounds openCount.                                     *)
PlaybackType ==
    /\ outputs \in [Handles -> OutputType \cup {NoOutput}]
    /\ tracks \in [Handles -> [Sessions -> 0 .. MaxTracks]]

PlaybackInv == PlaybackType /\ OutputServesItsSession /\ EachPortOpenOnce

(* Closing any set of outputs keeps the playback state consistent.         *)
LEMMA ClosingKeeps ==
    ASSUME PlaybackInv, NEW H, CloseOutputs(H)
    PROVE  PlaybackInv'
  <1>1. /\ outputs' = [h \in Handles |-> IF h \in H THEN NoOutput ELSE outputs[h]]
        /\ tracks' = [h \in Handles |-> IF h \in H THEN NoTracks ELSE tracks[h]]
    BY DEF CloseOutputs, OutputsWithout, TracksWithout
  <1>2. NoTracks \in [Sessions -> 0 .. MaxTracks]
    BY Bounds DEF NoTracks
  <1>3. PlaybackType'
    BY <1>1, <1>2 DEF PlaybackInv, PlaybackType
  <1>4. OutputServesItsSession'
    BY <1>1 DEF PlaybackInv, PlaybackType, OutputServesItsSession, NoTracks
  <1>5. EachPortOpenOnce'
    BY <1>1 DEF PlaybackInv, EachPortOpenOnce, OpenOutputs
  <1> QED BY <1>3, <1>4, <1>5 DEF PlaybackInv

(* One more track of its own session on an output that stays open.         *)
LEMMA ReuseKeeps ==
    ASSUME PlaybackInv, NEW s \in Sessions, NEW old, NEW h \in OpenOutputs \ old,
           outputs[h].session = s, ReuseOutput(h, s, old)
    PROVE  PlaybackInv'
  <1>1. h \in Handles /\ outputs[h] \in OutputType /\ tracks[h][s] = outputs[h].openCount
    BY DEF PlaybackInv, PlaybackType, OutputServesItsSession, OpenOutputs
  <1>2. [outputs[h] EXCEPT !.openCount = @ + 1] \in OutputType
    BY <1>1, Bounds DEF OutputType, ReuseOutput, PlaybackInv, PlaybackType
  <1>3. /\ outputs' = [k \in Handles |-> IF k = h THEN [outputs[h] EXCEPT !.openCount = @ + 1]
                                         ELSE IF k \in old THEN NoOutput ELSE outputs[k]]
        /\ tracks' = [k \in Handles |-> IF k = h THEN [tracks[h] EXCEPT ![s] = @ + 1]
                                        ELSE IF k \in old THEN NoTracks ELSE tracks[k]]
    BY <1>1 DEF ReuseOutput, OutputsWithout, TracksWithout
  <1>4. NoTracks \in [Sessions -> 0 .. MaxTracks]
    BY Bounds DEF NoTracks
  <1>5. tracks[h] \in [Sessions -> 0 .. MaxTracks] /\ tracks[h][s] < MaxTracks
    BY <1>1 DEF PlaybackInv, PlaybackType, ReuseOutput
  <1>6. [tracks[h] EXCEPT ![s] = @ + 1] \in [Sessions -> 0 .. MaxTracks]
    BY <1>5, Bounds
  <1>7. PlaybackType'
    BY <1>2, <1>3, <1>4, <1>6 DEF PlaybackInv, PlaybackType
  <1>8. /\ outputs'[h].session = s /\ outputs'[h].openCount = outputs[h].openCount + 1
        /\ outputs'[h].port = outputs[h].port /\ outputs'[h].format = outputs[h].format
        /\ outputs'[h] # NoOutput
    BY <1>1, <1>2, <1>3, Bounds DEF OutputType
  <1>9. OutputServesItsSession'
    <2> SUFFICES ASSUME NEW k \in Handles, NEW t \in Sessions
                 PROVE  tracks'[k][t] = IF outputs'[k] # NoOutput /\ outputs'[k].session = t
                                        THEN outputs'[k].openCount ELSE 0
      BY DEF OutputServesItsSession
    <2>1. CASE k = h
      <3>0. tracks'[h] = [tracks[h] EXCEPT ![s] = @ + 1]
        BY <1>1, <1>3
      <3>1. tracks'[h][t] = IF t = s THEN tracks[h][s] + 1 ELSE tracks[h][t]
        BY <1>5, <3>0
      <3>2. t # s => tracks[h][t] = 0
        BY <1>1 DEF PlaybackInv, OutputServesItsSession
      <3> QED BY <2>1, <3>1, <3>2, <1>1, <1>8
    <2>2. CASE k # h
      BY <2>2, <1>3 DEF PlaybackInv, OutputServesItsSession, NoTracks
    <2> QED BY <2>1, <2>2
  <1>10. EachPortOpenOnce'
    BY <1>3, <1>8 DEF PlaybackInv, EachPortOpenOnce, OpenOutputs
  <1> QED BY <1>7, <1>9, <1>10 DEF PlaybackInv

(* A new output on a port that is not open otherwise.                      *)
LEMMA OpenKeeps ==
    ASSUME PlaybackInv, NEW s \in Sessions, NEW old, NEW p \in DirectPorts,
           NEW format \in MixPorts[p].formats,
           \A k \in OpenOutputs \ old : outputs[k].port # p,
           OpenOutput(p, format, s, old)
    PROVE  PlaybackInv'
  <1>1. CASE CloseOutputs(old)
    BY <1>1, ClosingKeeps
  <1>2. ASSUME NEW h \in Handles, \A k \in OpenOutputs \ old : k < h,
               outputs' = [OutputsWithout(old) EXCEPT ![h] = Output(p, format, s)],
               tracks' = [TracksWithout(old) EXCEPT ![h] = [NoTracks EXCEPT ![s] = 1]]
        PROVE  PlaybackInv'
    <2>1. /\ outputs' = [k \in Handles |-> IF k = h THEN Output(p, format, s)
                                           ELSE IF k \in old THEN NoOutput ELSE outputs[k]]
          /\ tracks' = [k \in Handles |-> IF k = h THEN [NoTracks EXCEPT ![s] = 1]
                                          ELSE IF k \in old THEN NoTracks ELSE tracks[k]]
      BY <1>2 DEF OutputsWithout, TracksWithout
    <2>2. NoTracks \in [Sessions -> 0 .. MaxTracks]
          /\ [NoTracks EXCEPT ![s] = 1] \in [Sessions -> 0 .. MaxTracks]
      BY Bounds DEF NoTracks
    <2>3. format \in Formats
      BY DEF Formats
    <2>4. Output(p, format, s) \in OutputType
      BY <2>3, Bounds DEF Output, OutputType
    <2>5. PlaybackType'
      BY <2>1, <2>2, <2>4 DEF PlaybackInv, PlaybackType
    <2>6. /\ outputs'[h] # NoOutput /\ outputs'[h].session = s /\ outputs'[h].openCount = 1
          /\ outputs'[h].port = p /\ outputs'[h].format = format
      BY <2>1, <2>4, Bounds DEF Output, OutputType
    <2>7. OutputServesItsSession'
      BY <2>1, <2>2, <2>6 DEF PlaybackInv, PlaybackType, OutputServesItsSession, NoTracks
    <2>8. EachPortOpenOnce'
      BY <2>1, <2>6 DEF PlaybackInv, EachPortOpenOnce, OpenOutputs
    <2> QED BY <2>5, <2>7, <2>8 DEF PlaybackInv
  <1> QED BY <1>1, <1>2 DEF OpenOutput

(* A request for an output, whatever the client, the HAL and the devices.  *)
LEMMA GetOutputKeeps ==
    ASSUME PlaybackInv, NEW e, NEW req, NEW s \in Sessions, GetOutput(e, req, s)
    PROVE  PlaybackInv'
  <1> DEFINE now   == Now(e, req, s)
             moved == VoipToClose(e, req, s)
             flags == FinalFlags(config, now, req)
             ports == DirectPort(now, req, flags)
             held  == {h \in OpenOutputs \ moved : outputs[h].port \in ports}
             reuse == Reusable(held, req, s)
             other == HeldByOther(held, now, flags, s)
  <1>1. \/ CloseOutputs(moved)
        \/ \E h \in reuse : ReuseOutput(h, s, moved)
        \/ \E p \in ports : OpenOutput(p, req.format, s, moved \cup held)
    BY DEF GetOutput
  <1>2. ASSUME NEW h \in reuse, ReuseOutput(h, s, moved)
        PROVE  PlaybackInv'
    <2>1. h \in OpenOutputs \ moved /\ outputs[h].session = s
      BY <1>2 DEF Reusable
    <2> QED BY <1>2, <2>1, ReuseKeeps
  <1>3. ASSUME NEW p \in ports, OpenOutput(p, req.format, s, moved \cup held)
        PROVE  PlaybackInv'
    <2>1. p \in DirectPorts /\ req.format \in MixPorts[p].formats
      BY <1>3 DEF DirectPort, PortsFor
    <2>2. \A k \in OpenOutputs \ (moved \cup held) : outputs[k].port # p
      OBVIOUS
    <2> QED BY <1>3, <2>1, <2>2, OpenKeeps
  <1> QED BY <1>1, <1>2, <1>3, ClosingKeeps

(* A track goes; the last one takes the output with it.                    *)
LEMMA ReleaseKeeps ==
    ASSUME PlaybackInv, NEW h \in Handles, NEW s \in Sessions, ReleaseOutput(h, s)
    PROVE  PlaybackInv'
  <1>1. CASE outputs[h].openCount = 1
    BY <1>1, ClosingKeeps DEF ReleaseOutput
  <1>2. CASE outputs[h].openCount # 1
    <2>1. /\ outputs[h] \in OutputType /\ outputs[h].session = s
          /\ tracks[h][s] = outputs[h].openCount
      BY DEF PlaybackInv, PlaybackType, OutputServesItsSession, ReleaseOutput
    <2>2. [outputs[h] EXCEPT !.openCount = @ - 1] \in OutputType
      BY <1>2, <2>1, Bounds DEF OutputType
    <2>3. /\ outputs' = [outputs EXCEPT ![h] = [outputs[h] EXCEPT !.openCount = @ - 1]]
          /\ tracks' = [tracks EXCEPT ![h] = [tracks[h] EXCEPT ![s] = @ - 1]]
      BY <1>2 DEF ReleaseOutput, PlaybackInv, PlaybackType
    <2>4. tracks[h] \in [Sessions -> 0 .. MaxTracks] /\ tracks[h][s] > 0
      BY DEF PlaybackInv, PlaybackType, ReleaseOutput
    <2>5. [tracks[h] EXCEPT ![s] = @ - 1] \in [Sessions -> 0 .. MaxTracks]
      BY <2>4, Bounds
    <2>6. PlaybackType'
      BY <2>2, <2>3, <2>5 DEF PlaybackInv, PlaybackType
    <2>7. /\ outputs'[h].session = s /\ outputs'[h].openCount = outputs[h].openCount - 1
          /\ outputs'[h].port = outputs[h].port /\ outputs'[h].format = outputs[h].format
          /\ outputs'[h] # NoOutput /\ outputs[h] # NoOutput
          /\ \A k \in Handles \ {h} : outputs'[k] = outputs[k] /\ tracks'[k] = tracks[k]
      BY <2>1, <2>2, <2>3, Bounds DEF OutputType, PlaybackInv, PlaybackType
    <2>8. OutputServesItsSession'
      <3> SUFFICES ASSUME NEW k \in Handles, NEW t \in Sessions
                   PROVE  tracks'[k][t] = IF outputs'[k] # NoOutput /\ outputs'[k].session = t
                                          THEN outputs'[k].openCount ELSE 0
        BY DEF OutputServesItsSession
      <3>1. CASE k = h
        <4>0. tracks'[h] = [tracks[h] EXCEPT ![s] = @ - 1]
          BY <2>3 DEF PlaybackInv, PlaybackType
        <4>1. tracks'[h][t] = IF t = s THEN tracks[h][s] - 1 ELSE tracks[h][t]
          BY <2>4, <4>0
        <4>2. t # s => tracks[h][t] = 0
          BY <2>1 DEF PlaybackInv, OutputServesItsSession
        <4> QED BY <2>1, <2>7, <3>1, <4>1, <4>2
      <3>2. CASE k # h
        BY <2>7, <3>2 DEF PlaybackInv, OutputServesItsSession
      <3> QED BY <3>1, <3>2
    <2>9. EachPortOpenOnce'
      BY <2>7 DEF PlaybackInv, EachPortOpenOnce, OpenOutputs
    <2> QED BY <2>6, <2>8, <2>9 DEF PlaybackInv
  <1> QED BY <1>1, <1>2

LEMMA PlaybackInit == Init => PlaybackInv
  BY Bounds DEF Init, PlaybackInv, PlaybackType, NoTracks, OutputServesItsSession,
                EachPortOpenOnce, OpenOutputs

LEMMA PlaybackNext ==
    ASSUME PlaybackInv, [Next]_vars
    PROVE  PlaybackInv'
  <1>0. ASSUME outputs' = outputs, tracks' = tracks PROVE PlaybackInv'
    BY <1>0 DEF PlaybackInv, PlaybackType, OutputServesItsSession, EachPortOpenOnce, OpenOutputs
  <1>1. ASSUME NEW s \in Sessions, GetOutputForAttr(s) PROVE PlaybackInv'
    BY <1>1, GetOutputKeeps DEF GetOutputForAttr
  <1>2. ASSUME NEW s \in Sessions, GetOffloadOutput(s) PROVE PlaybackInv'
    BY <1>2, GetOutputKeeps DEF GetOffloadOutput
  <1>3. ASSUME NEW s \in Sessions, NEW clip, AskOffload(s, clip) PROVE PlaybackInv'
    BY <1>0, <1>3 DEF AskOffload
  <1>4. ASSUME NEW h \in Handles, NEW s \in Sessions, ReleaseOutput(h, s) PROVE PlaybackInv'
    BY <1>4, ReleaseKeeps
  <1>5. ASSUME SetSoftOnly PROVE PlaybackInv'
    BY <1>0, <1>5, ClosingKeeps DEF SetSoftOnly
  <1>6. ASSUME NEW r \in RecClients, GetInputForAttr(r) \/ ReleaseInput(r) \/ StopInput(r)
        PROVE  PlaybackInv'
    BY <1>0, <1>6 DEF GetInputForAttr, ReleaseInput, StopInput, playback
  <1>7. ASSUME NEW r \in RecClients, StartInput(r) \/ StartInputFails(r) PROVE PlaybackInv'
    BY <1>7, ClosingKeeps DEF StartInput, StartInputFails
  <1>8. ASSUME SetForceUse PROVE PlaybackInv'
    BY <1>0, <1>8 DEF SetForceUse, playback
  <1>9. ASSUME NEW s \in Modes, SetPhoneState(s) PROVE PlaybackInv'
    BY <1>9, ClosingKeeps DEF SetPhoneState
  <1>10. ASSUME UNCHANGED vars PROVE PlaybackInv'
    BY <1>0, <1>10 DEF vars
  <1> QED BY <1>1, <1>2, <1>3, <1>4, <1>5, <1>6, <1>7, <1>8, <1>9, <1>10
          DEF Next, Player, Recorder

(* The number of tracks of a direct output is the number of those who may  *)
(* close it, and they are of one session.                                  *)
THEOREM OutputServesItsSessionHolds == Spec => []OutputServesItsSession
  <1>1. PlaybackInv => OutputServesItsSession
    BY DEF PlaybackInv
  <1> QED BY <1>1, PlaybackInit, PlaybackNext, PTL DEF Spec

(* A mix port is open at most once, for a format it carries.               *)
THEOREM EachPortOpenOnceHolds == Spec => []EachPortOpenOnce
  <1>1. PlaybackInv => EachPortOpenOnce
    BY DEF PlaybackInv
  <1> QED BY <1>1, PlaybackInit, PlaybackNext, PTL DEF Spec

-----------------------------------------------------------------------------
(* The types of all variables.                                             *)
LEMMA TypeInit == Init => TypeOK
  <1> SUFFICES ASSUME Init PROVE TypeOK
    OBVIOUS
  <1>1. PlaybackType
    BY PlaybackInit DEF PlaybackInv
  <1>2. suspended \in 0 .. MaxSuspends /\ reentries \in Nat
    BY AudioPolicyAssumption DEF Init
  <1> QED BY <1>1, <1>2 DEF Init, TypeOK, PlaybackType, Modes

LEMMA TypeNext ==
    ASSUME TypeOK, PlaybackInv, [Next]_vars
    PROVE  TypeOK'
  <1>0. PlaybackType'
    BY PlaybackNext DEF PlaybackInv
  <1> DEFINE Rest == /\ config \in Configs
                     /\ phoneState \in Modes /\ prevState \in Modes /\ callState \in BOOLEAN
                     /\ suspended \in 0 .. MaxSuspends /\ reentries \in Nat /\ softOnly \in BOOLEAN
                     /\ grant \subseteq GrantType
                     /\ inputs \in [RecClients -> {"none", "open", "active"}]
                     /\ requesting \in BOOLEAN /\ recPlayConc \in BOOLEAN /\ capture \in BOOLEAN
  <1>00. Rest
    BY DEF TypeOK
  <1>1. ASSUME NEW s \in Sessions, GetOutputForAttr(s) \/ GetOffloadOutput(s) PROVE Rest'
    <2>1. /\ UNCHANGED <<config, phone, suspension, softOnly, record>>
          /\ grant' \subseteq grant
      BY <1>1 DEF GetOutputForAttr, GetOffloadOutput, GetOutput
    <2>2. grant' \subseteq GrantType
      BY <1>00, <2>1
    <2> QED BY <1>00, <2>1, <2>2 DEF phone, suspension, record
  <1>3. ASSUME NEW s \in Sessions, NEW clip \in Workload[config].clips, AskOffload(s, clip)
        PROVE  Rest'
    <2>1. clip.format \in Formats
      BY <1>00, AudioPolicyAssumption
    <2>2. grant' \subseteq GrantType
      BY <1>00, <1>3, <2>1 DEF AskOffload, GrantType
    <2> QED BY <1>00, <1>3, <2>2 DEF AskOffload, phone, suspension, record
  <1>4. ASSUME NEW h \in Handles, NEW s \in Sessions, ReleaseOutput(h, s) PROVE Rest'
    BY <1>00, <1>4 DEF ReleaseOutput, phone, suspension, record
  <1>5. ASSUME SetSoftOnly PROVE Rest'
    BY <1>00, <1>5 DEF SetSoftOnly, phone, suspension, record
  <1>6. ASSUME NEW r \in RecClients,
               GetInputForAttr(r) \/ ReleaseInput(r) \/ StopInput(r) \/ StartInput(r) \/ StartInputFails(r)
        PROVE  Rest'
    <2>1. UNCHANGED <<config, phone, suspension, grant, softOnly>>
      BY <1>6 DEF GetInputForAttr, ReleaseInput, StopInput, StartInput, StartInputFails, playback
    <2>2. /\ inputs' \in [RecClients -> {"none", "open", "active"}]
          /\ requesting' \in BOOLEAN
      BY <1>00, <1>6 DEF GetInputForAttr, ReleaseInput, StopInput, StartInput, StartInputFails
    <2>3. recPlayConc' \in BOOLEAN /\ capture' \in BOOLEAN
      BY <1>00, <1>6 DEF GetInputForAttr, ReleaseInput, StopInput, StartInput, StartInputFails, StopInputs
    <2> QED BY <1>00, <2>1, <2>2, <2>3 DEF phone, suspension
  <1>8. ASSUME SetForceUse PROVE Rest'
    BY <1>00, <1>8 DEF SetForceUse, playback, suspension, phone
  <1>9. ASSUME NEW s \in Modes, SetPhoneState(s) PROVE Rest'
    <2>1. /\ UNCHANGED <<config, grant, softOnly, requesting>>
          /\ phoneState' \in Modes /\ prevState' \in Modes /\ callState' \in BOOLEAN
          /\ reentries' \in Nat
      BY <1>00, <1>9 DEF SetPhoneState, NewCallState
    <2>4. suspended' \in 0 .. MaxSuspends
      BY <1>00, <1>9, AudioPolicyAssumption DEF SetPhoneState, Suspensions
    <2>2. inputs' \in [RecClients -> {"none", "open", "active"}]
      BY <1>00, <1>9 DEF SetPhoneState
    <2>3. recPlayConc' \in BOOLEAN /\ capture' \in BOOLEAN
      BY <1>00, <1>9 DEF SetPhoneState, StopInputs
    <2> QED BY <1>00, <2>1, <2>2, <2>3, <2>4
  <1>10. ASSUME UNCHANGED vars PROVE Rest'
    BY <1>00, <1>10 DEF vars
  <1>11. Rest'
    BY <1>1, <1>3, <1>4, <1>5, <1>6, <1>8, <1>9, <1>10 DEF Next, Player, Recorder
  <1> QED BY <1>0, <1>11 DEF TypeOK, PlaybackType

(* The types of the variables, which rest on OutputServesItsSession.       *)
THEOREM TypeOKHolds == Spec => []TypeOK
  <1>1. TypeOK /\ PlaybackInv /\ [Next]_vars => TypeOK' /\ PlaybackInv'
    BY TypeNext, PlaybackNext
  <1> QED BY <1>1, TypeInit, PlaybackInit, PTL DEF Spec

-----------------------------------------------------------------------------
(* A suspension of the primary output is undone after the call, or the     *)
(* call was entered again with it pending: what stays suspended is one for *)
(* each such entry.                                                        *)
THEOREM SuspendedIsRememberedHolds == Spec => []SuspendedIsRemembered
  <1>1. Init => SuspendedIsRemembered
    BY DEF Init, SuspendedIsRemembered
  <1>2. ASSUME TypeOK, SuspendedIsRemembered, [Next]_vars PROVE SuspendedIsRemembered'
    <2>0. ASSUME UNCHANGED <<config, callState, suspension>> PROVE SuspendedIsRemembered'
      BY <1>2, <2>0 DEF SuspendedIsRemembered, FallBackFlag, suspension
    <2>1. ASSUME NEW s \in Modes, SetPhoneState(s) PROVE SuspendedIsRemembered'
      <3>0. suspended \in Nat /\ reentries \in Nat
        BY <1>2, AudioPolicyAssumption DEF TypeOK
      <3>1. /\ config' = config /\ callState' = NewCallState(s)
            /\ suspended' = Suspensions(s)
            /\ reentries' = IF SuspendsPrimary(s) /\ callState /\ suspended > 0
                            THEN reentries + 1 ELSE reentries
        BY <2>1 DEF SetPhoneState
      <3>2. FallBackFlag(config)' = FallBackFlag(config)
        BY <3>1 DEF FallBackFlag
      <3>3. CASE SuspendsPrimary(s)
        <4>1. NewCallState(s) /\ FallBackFlag(config) = "FAST"
          BY <3>3 DEF SuspendsPrimary, NewCallState
        <4>2. suspended' = suspended + 1
          <5>1. ~RestoresPrimary(s)
            BY <3>3 DEF SuspendsPrimary, RestoresPrimary, EntersCall, LeavesCall
          <5> QED BY <3>1, <3>3, <5>1 DEF Suspensions
        <4>3. suspended = 0 \/ suspended <= reentries + (IF callState THEN 1 ELSE 0)
          BY <1>2, <3>0 DEF SuspendedIsRemembered
        <4>4. suspended' <= reentries' + 1
          <5>1. CASE callState /\ suspended > 0
            BY <3>0, <3>1, <3>3, <4>2, <4>3, <5>1
          <5>2. CASE ~callState /\ suspended > 0
            BY <3>0, <3>1, <4>2, <4>3, <5>2
          <5>3. CASE suspended = 0
            BY <3>0, <3>1, <4>2, <5>3
          <5> QED BY <3>0, <5>1, <5>2, <5>3
        <4> QED BY <3>1, <3>2, <4>1, <4>4 DEF SuspendedIsRemembered
      <3>4. CASE ~SuspendsPrimary(s) /\ RestoresPrimary(s) /\ suspended > 0
        <4>1. suspended' = suspended - 1 /\ reentries' = reentries
          BY <3>1, <3>4 DEF Suspensions
        <4> QED BY <1>2, <3>0, <3>1, <3>2, <3>4, <4>1 DEF SuspendedIsRemembered
      <3>5. CASE ~SuspendsPrimary(s) /\ ~(RestoresPrimary(s) /\ suspended > 0)
        <4>1. suspended' = suspended /\ reentries' = reentries
          BY <3>1, <3>5 DEF Suspensions
        <4>2. suspended > 0 /\ callState /\ FallBackFlag(config) = "FAST" => NewCallState(s)
          BY <3>5 DEF RestoresPrimary, NewCallState
        <4> QED BY <1>2, <3>0, <3>1, <3>2, <4>1, <4>2 DEF SuspendedIsRemembered
      <3> QED BY <3>3, <3>4, <3>5
    <2>2. CASE \E s \in Sessions : GetOutputForAttr(s) \/ GetOffloadOutput(s)
      BY <2>0, <2>2 DEF GetOutputForAttr, GetOffloadOutput, GetOutput, phone
    <2>3. CASE \E s \in Sessions, clip \in Workload[config].clips : AskOffload(s, clip)
      BY <2>0, <2>3 DEF AskOffload, phone
    <2>4. CASE \E h \in Handles, s \in Sessions : ReleaseOutput(h, s)
      BY <2>0, <2>4 DEF ReleaseOutput, phone
    <2>5. CASE Recorder
      BY <2>0, <2>5 DEF Recorder, GetInputForAttr, ReleaseInput, StartInput, StartInputFails,
                        StopInput, phone, playback
    <2>6. CASE SetForceUse \/ SetSoftOnly
      BY <2>0, <2>6 DEF SetForceUse, SetSoftOnly, phone, playback
    <2>7. CASE UNCHANGED vars
      BY <2>0, <2>7 DEF vars, suspension
    <2> QED BY <1>2, <2>1, <2>2, <2>3, <2>4, <2>5, <2>6, <2>7 DEF Next, Player
  <1> QED BY <1>1, <1>2, TypeOKHolds, PTL DEF Spec

-----------------------------------------------------------------------------
(* Recording.  What the HAL and the sound trigger service were told last   *)
(* follows the active inputs through every way to start and to stop one.   *)
RecordInv ==
    /\ inputs \in [RecClients -> {"none", "open", "active"}]
    /\ requesting \in BOOLEAN /\ recPlayConc \in BOOLEAN /\ capture \in BOOLEAN
    /\ HalKnowsRecording
    /\ CaptureIsExact

(* Inputs of K stop: by their clients, or because a call begins.           *)
LEMMA StopKeeps ==
    ASSUME RecordInv, config' = config, NEW K \in SUBSET RecClients,
           StopInputs(K), inputs' \in [RecClients -> {"none", "open", "active"}],
           Active' = Active \ K
    PROVE  HalKnowsRecording' /\ CaptureIsExact'
  <1>1. HalKnowsRecording'
    <2>1. (Active \ K) \cap OnPrimary # {} => recPlayConc' = recPlayConc
      BY DEF StopInputs, RecordInv
    <2>2. (Active \ K) \cap OnPrimary # {} => Active \cap OnPrimary # {}
      OBVIOUS
    <2>3. RecPlayRestricted' = RecPlayRestricted
      BY DEF RecPlayRestricted
    <2> QED BY <2>1, <2>2, <2>3 DEF HalKnowsRecording, RecordInv
  <1>2. CaptureIsExact'
    <2> SUFFICES ASSUME ~config.vaConc PROVE capture' <=> Active' \cap OnPrimary # {}
      BY DEF CaptureIsExact
    <2>1. ~VaLast(K)
      BY DEF VaLast
    <2>2. capture <=> Active \cap OnPrimary # {}
      BY DEF CaptureIsExact, RecordInv
    <2>3. capture' <=> capture /\ ~LastOnPrimary(K \cap Active)
      BY <2>1 DEF StopInputs
    <2>4. LastOnPrimary(K \cap Active) <=>
             (K \cap Active) \cap OnPrimary # {} /\ (Active \ K) \cap OnPrimary = {}
      BY DEF LastOnPrimary
    <2> QED BY <2>2, <2>3, <2>4
  <1> QED BY <1>1, <1>2

LEMMA RecordNext ==
    ASSUME RecordInv, [Next]_vars
    PROVE  RecordInv'
  <1> DEFINE Kept == UNCHANGED <<config, inputs, requesting, recPlayConc, capture>>
  <1>0. ASSUME Kept PROVE RecordInv'
    BY <1>0 DEF RecordInv, HalKnowsRecording, CaptureIsExact, RecPlayRestricted, Active
  <1>1. CASE Player
    <2>1. ASSUME NEW s \in Sessions, GetOutputForAttr(s) \/ GetOffloadOutput(s) PROVE Kept
      BY <2>1 DEF GetOutputForAttr, GetOffloadOutput, GetOutput, record
    <2>2. ASSUME NEW s \in Sessions, NEW clip, AskOffload(s, clip) PROVE Kept
      BY <2>2 DEF AskOffload, record
    <2>3. ASSUME NEW h \in Handles, NEW s \in Sessions, ReleaseOutput(h, s) PROVE Kept
      BY <2>3 DEF ReleaseOutput, record
    <2> HIDE DEF Kept
    <2> QED BY <1>0, <1>1, <2>1, <2>2, <2>3 DEF Player
  <1>2. CASE SetSoftOnly
    BY <1>0, <1>2 DEF SetSoftOnly, record
  <1>3. ASSUME NEW r \in RecClients, GetInputForAttr(r) PROVE RecordInv'
    <2>1. Active' = Active
      BY <1>3 DEF GetInputForAttr, Active, RecordInv
    <2> QED BY <1>3, <2>1 DEF GetInputForAttr, RecordInv, HalKnowsRecording, CaptureIsExact,
                              RecPlayRestricted
  <1>4. ASSUME NEW r \in RecClients, ReleaseInput(r) PROVE RecordInv'
    <2>1. Active' = Active /\ Active \ {r} = Active
      BY <1>4 DEF ReleaseInput, Active, RecordInv
    <2>2. capture' = (capture /\ ~LastOnPrimary({r}))
      BY <1>4 DEF ReleaseInput
    <2>3. LastOnPrimary({r}) => Active \cap OnPrimary = {}
      BY <2>1 DEF LastOnPrimary
    <2> QED BY <1>4, <2>1, <2>2, <2>3 DEF ReleaseInput, RecordInv, HalKnowsRecording, CaptureIsExact,
                                         RecPlayRestricted
  <1>5. ASSUME NEW r \in RecClients, StopInput(r) PROVE RecordInv'
    <2>1. /\ inputs' \in [RecClients -> {"none", "open", "active"}]
          /\ Active' = Active \ {r}
      BY <1>5 DEF StopInput, Active, RecordInv
    <2>2. recPlayConc' \in BOOLEAN /\ capture' \in BOOLEAN
      BY <1>5 DEF StopInput, StopInputs
    <2> QED BY <1>5, <2>1, <2>2, StopKeeps DEF StopInput, RecordInv
  <1>6. ASSUME NEW r \in RecClients, StartInput(r) PROVE RecordInv'
    <2>1. /\ inputs' \in [RecClients -> {"none", "open", "active"}]
          /\ Active' = Active \cup {r}
      BY <1>6 DEF StartInput, Active, RecordInv
    <2>2. /\ recPlayConc' = (recPlayConc \/ FirstRecording)
          /\ capture' = (capture \/ FirstOnPrimary(r))
          /\ config' = config
          /\ requesting' \in BOOLEAN
      BY <1>6 DEF StartInput
    <2>3. HalKnowsRecording'
      BY <2>2 DEF RecordInv, HalKnowsRecording, FirstRecording, RecPlayRestricted
    <2>4. CaptureIsExact'
      BY <2>1, <2>2 DEF RecordInv, CaptureIsExact, FirstOnPrimary
    <2>5. recPlayConc' \in BOOLEAN /\ capture' \in BOOLEAN
      BY <2>2
    <2> QED BY <2>1, <2>2, <2>3, <2>4, <2>5 DEF RecordInv
  <1>7. ASSUME NEW r \in RecClients, StartInputFails(r) PROVE RecordInv'
    BY <1>7 DEF StartInputFails, RecordInv, HalKnowsRecording, CaptureIsExact, RecPlayRestricted, Active
  <1>8. ASSUME SetForceUse PROVE RecordInv'
    <2>1. PICK K \in SUBSET Active :
             /\ inputs' = [r \in RecClients |-> IF r \in K THEN "none" ELSE inputs[r]]
             /\ capture' = (capture /\ ~LastOnPrimary(K))
             /\ UNCHANGED <<config, requesting, recPlayConc>>
      BY <1>8 DEF SetForceUse
    <2>2. Active' = Active \ K
      BY <2>1 DEF Active, RecordInv
    <2>3. inputs' \in [RecClients -> {"none", "open", "active"}] /\ capture' \in BOOLEAN
      BY <2>1 DEF RecordInv
    <2>4. HalKnowsRecording'
      BY <2>1, <2>2 DEF RecordInv, HalKnowsRecording, RecPlayRestricted
    <2>5. CaptureIsExact'
      BY <2>1, <2>2 DEF RecordInv, CaptureIsExact, LastOnPrimary
    <2> QED BY <2>1, <2>3, <2>4, <2>5 DEF RecordInv
  <1>9. ASSUME NEW s \in Modes, SetPhoneState(s) PROVE RecordInv'
    <2> DEFINE K == CallClosesInputs(s)
    <2>1. K \in SUBSET RecClients
      BY DEF CallClosesInputs, Active
    <2>2. /\ inputs' \in [RecClients -> {"none", "open", "active"}]
          /\ Active' = Active \ K
      BY <1>9 DEF SetPhoneState, Active, RecordInv
    <2>3. recPlayConc' \in BOOLEAN /\ capture' \in BOOLEAN
      BY <1>9 DEF SetPhoneState, StopInputs
    <2>4. StopInputs(K) /\ config' = config /\ requesting' = requesting
      BY <1>9 DEF SetPhoneState
    <2> HIDE DEF K
    <2>5. HalKnowsRecording' /\ CaptureIsExact'
      BY <2>1, <2>2, <2>4, StopKeeps
    <2> QED BY <2>2, <2>3, <2>4, <2>5 DEF RecordInv
  <1>10. CASE UNCHANGED vars
    BY <1>0, <1>10 DEF vars
  <1> QED BY <1>1, <1>2, <1>3, <1>4, <1>5, <1>6, <1>7, <1>8, <1>9, <1>10 DEF Next, Recorder

LEMMA RecordInit == Init => RecordInv
  BY DEF Init, RecordInv, HalKnowsRecording, CaptureIsExact, Active

(* The HAL knows of every recording that restricts playback.               *)
THEOREM HalKnowsRecordingHolds == Spec => []HalKnowsRecording
  <1>1. RecordInv => HalKnowsRecording
    BY DEF RecordInv
  <1> QED BY <1>1, RecordInit, RecordNext, PTL DEF Spec

(* Without concurrent voice assistants, the sound trigger service is off   *)
(* the microphone exactly while an input of the primary module is active.  *)
THEOREM CaptureIsExactHolds == Spec => []CaptureIsExact
  <1>1. RecordInv => CaptureIsExact
    BY DEF RecordInv
  <1> QED BY <1>1, RecordInit, RecordNext, PTL DEF Spec

-----------------------------------------------------------------------------
(* The loops that close outputs by index.  A loop whose condition holds of *)
(* one output closes it; of none, it closes nothing.                       *)
LEMMA SkippingOne ==
    ASSUME NEW open \in SUBSET Nat, NEW h \in open
    PROVE  Skipping(open, {h}) = {h}
  <1> DEFINE run(k) == {g \in {h} : g <= k /\ \A j \in open : g <= j /\ j <= k => j \in {h}}
  <1>1. run(h) = {h}
    OBVIOUS
  <1>2. Cardinality(run(h)) % 2 = 1
    BY <1>1, FS_Singleton
  <1> QED BY <1>2 DEF Skipping

(* A change of the phone state leaves no DSD stream open: one port carries *)
(* DSD, so that its loop has nothing to skip.                              *)
THEOREM PhoneStateEndsDsdHolds == Spec => PhoneStateEndsDsd
  <1>1. ASSUME PlaybackInv, Next, config.voiceDsdConcDisabled, phoneState' # phoneState,
               NEW h \in Handles, outputs'[h] # NoOutput
        PROVE  outputs'[h].format # "DSD"
    <2>1. PICK s \in Modes : SetPhoneState(s)
      <3>1. ASSUME NEW s \in Sessions, GetOutputForAttr(s) \/ GetOffloadOutput(s)
            PROVE  phoneState' = phoneState
        BY <3>1 DEF GetOutputForAttr, GetOffloadOutput, GetOutput, phone
      <3>2. ASSUME NEW s \in Sessions, NEW clip, AskOffload(s, clip) PROVE phoneState' = phoneState
        BY <3>2 DEF AskOffload, phone
      <3>3. ASSUME NEW k \in Handles, NEW s \in Sessions, ReleaseOutput(k, s)
            PROVE  phoneState' = phoneState
        BY <3>3 DEF ReleaseOutput, phone
      <3>4. ASSUME Recorder PROVE phoneState' = phoneState
        BY <3>4 DEF Recorder, GetInputForAttr, ReleaseInput, StartInput, StartInputFails, StopInput,
                    phone
      <3>5. ASSUME SetForceUse \/ SetSoftOnly PROVE phoneState' = phoneState
        BY <3>5 DEF SetForceUse, SetSoftOnly, phone
      <3> QED BY <1>1, <3>1, <3>2, <3>3, <3>4, <3>5 DEF Next, Player
    <2> DEFINE afterCall == OpenOutputs \ CallCloses(s)
    <2>2. h \notin PhoneStateCloses(s) /\ outputs'[h] = outputs[h]
      BY <1>1, <2>1 DEF SetPhoneState, CloseOutputs, OutputsWithout
    <2> SUFFICES ASSUME outputs[h].format = "DSD" PROVE FALSE
      BY <2>2
    <2>3. \A p \in DirectPorts : "DSD" \in MixPorts[p].formats => p = "dsd_compress_passthrough"
      BY DEF DirectPorts, MixPorts, Port, PcmFormats
    <2>4. \A k \in DsdOutputs : k = h
      <3>1. \A k \in DsdOutputs : outputs[k].port = "dsd_compress_passthrough"
        BY <1>1, <2>3 DEF PlaybackInv, PlaybackType, EachPortOpenOnce, DsdOutputs, OpenOutputs,
                          OutputType
      <3> QED BY <1>1, <2>2, <3>1 DEF PlaybackInv, EachPortOpenOnce, DsdOutputs, OpenOutputs
    <2>5. h \in afterCall
      BY <1>1, <2>2 DEF OpenOutputs, PhoneStateCloses
    <2>6. DsdOutputs \cap afterCall = {h}
      BY <1>1, <2>2, <2>4, <2>5 DEF DsdOutputs, OpenOutputs
    <2>7. Skipping(afterCall, {h}) = {h}
      BY <2>5, SkippingOne, Bounds DEF OpenOutputs
    <2>8. DsdCloses(afterCall, s) = {h}
      BY <1>1, <2>6, <2>7 DEF DsdCloses
    <2> QED BY <2>2, <2>8 DEF PhoneStateCloses
  <1>2. PlaybackInv /\ [Next]_vars =>
           [config.voiceDsdConcDisabled /\ phoneState' # phoneState =>
              \A h \in Handles : outputs'[h] # NoOutput => outputs'[h].format # "DSD"]_vars
    BY <1>1
  <1> QED BY <1>2, PlaybackInit, PlaybackNext, PTL DEF Spec, PhoneStateEndsDsd

-----------------------------------------------------------------------------
(* What a request may do to the direct outputs of others, and to the DSP.  *)
(*                                                                         *)
(* A port is for PCM or for compressed data, and the PCM ports differ by   *)
(* a decisive flag.                                                        *)
LEMMA PortFlags ==
    ASSUME NEW p \in DirectPorts
    PROVE  /\ \A f \in MixPorts[p].formats :
                 "COMPRESS_OFFLOAD" \in MixPorts[p].flags <=> f \notin PcmFormats
           /\ \/ "COMPRESS_OFFLOAD" \in MixPorts[p].flags
              \/ p = "mmap_no_irq_out"
              \/ MixPorts[p].flags = {"DIRECT"}
              \/ "VOIP_RX" \in MixPorts[p].flags
  BY DEF DirectPorts, MixPorts, Port, PcmFormats, Offload

(* The stages that rewrite the flags of a PCM client leave a direct output *)
(* requested by itself, and ask for the VoIP output only if it is free.    *)
LEMMA PcmFlags ==
    ASSUME NEW c, NEW now, NEW req, UsualFlags(req.flags), "VOIP_RX" \notin req.flags
    PROVE  /\ UsualFlags(FinalFlags(c, now, req))
           /\ "VOIP_RX" \in FinalFlags(c, now, req) => now.voipFree
  <1> DEFINE Good(flags) == UsualFlags(flags) /\ ("VOIP_RX" \in flags => now.voipFree)
             voice    == VoiceFlags(c, now, req)
             called   == CallFlags(c, now, req, voice)
             recorded == RecordFlags(c, now, req, called)
             proxied  == ProxyFlags(c, now, req, recorded)
             direct   == ImpliedDirect(proxied)
             magic    == MagicFlags(c, req, direct)
             music    == MusicOnlyFlags(now, req, magic)
  <1>1. Good(voice)
    <2>1. Good(VoipFlags(c, now, req, req.flags))
      BY DEF VoipFlags, UsualFlags
    <2> QED BY <2>1 DEF VoiceFlags, VrFlags, UsualFlags
  <1>2. Good(called)
    BY <1>1 DEF CallFlags, UsualFlags
  <1>3. Good(recorded)
    BY <1>2 DEF RecordFlags, UsualFlags
  <1>4. Good(proxied)
    BY <1>3 DEF ProxyFlags, UsualFlags
  <1>5. Good(direct)
    BY <1>4 DEF ImpliedDirect, UsualFlags
  <1>6. Good(magic)
    BY <1>5 DEF MagicFlags, UsualFlags
  <1>7. Good(music)
    BY <1>6 DEF MusicOnlyFlags, UsualFlags
  <1>8. Good(DedicatedFlags(now, req, music))
    BY <1>7 DEF DedicatedFlags, UsualFlags
  <1> QED BY <1>8 DEF FinalFlags

(* The request of an offloaded track loses its flags altogether or comes   *)
(* out as it is; a call or a recording that has the DSP takes them away.   *)
LEMMA OffloadFlags ==
    ASSUME NEW c, NEW now, NEW format
    PROVE  LET flags == FinalFlags(c, now, OffloadRequest(format))
           IN  "DIRECT" \in flags =>
                  /\ flags = {"COMPRESS_OFFLOAD", "DIRECT"}
                  /\ ~(c.voiceConc /\ c.voicePlayConcDisabled /\ CallRunning(now))
                  /\ ~(c.recPlayConc /\ c.recPlayConcDisabled /\ now.recording)
  <1> DEFINE req == OffloadRequest(format)
             offload  == {"COMPRESS_OFFLOAD"}
             lost     == {{"FAST"}, {"DEEP_BUFFER"}}
             InCall   == c.voiceConc /\ c.voicePlayConcDisabled /\ CallRunning(now)
             InRecord == c.recPlayConc /\ c.recPlayConcDisabled /\ now.recording
             called   == CallFlags(c, now, req, VoiceFlags(c, now, req))
             recorded == RecordFlags(c, now, req, called)
             direct   == ImpliedDirect(ProxyFlags(c, now, req, recorded))
             music    == MusicOnlyFlags(now, req, MagicFlags(c, req, direct))
  <1>0. req.stream = "MUSIC" /\ req.flags = offload
    BY DEF OffloadRequest
  <1> HIDE DEF req
  <1>1. VoiceFlags(c, now, req) = offload
    BY <1>0 DEF VoiceFlags, VrFlags, VoipFlags
  <1>2. called \in lost \/ (called = offload /\ ~InCall)
    BY <1>0, <1>1 DEF CallFlags, FallBackFlag, Dsp
  <1>3. recorded \in lost \/ (recorded = offload /\ ~InCall /\ ~InRecord)
    BY <1>0, <1>2 DEF RecordFlags
  <1>4. \/ direct \in lost
        \/ direct = {"COMPRESS_OFFLOAD", "DIRECT"} /\ ~InCall /\ ~InRecord
    BY <1>0, <1>3 DEF ProxyFlags, ImpliedDirect
  <1>5. music = direct
    BY <1>0, <1>4 DEF MagicFlags, MusicOnlyFlags
  <1>6. FinalFlags(c, now, req) = DedicatedFlags(now, req, music)
    BY DEF FinalFlags
  <1> QED BY <1>0, <1>4, <1>5, <1>6 DEF DedicatedFlags, req

(* What the two theorems below need to know of a state.                    *)
CallIsKnown == config.voiceConc /\ phoneState = "IN_CALL" => callState

GrantsAreCompressed == \A g \in grant : g.format \notin PcmFormats

ClientInv == TypeOK /\ PlaybackInv /\ CallIsKnown /\ GrantsAreCompressed

LEMMA ClientInit == Init => ClientInv
  BY TypeInit, PlaybackInit DEF Init, ClientInv, CallIsKnown, GrantsAreCompressed

LEMMA CallIsKnownNext == CallIsKnown /\ [Next]_vars => CallIsKnown'
  <1> SUFFICES ASSUME CallIsKnown, [Next]_vars PROVE CallIsKnown'
    OBVIOUS
  <1> DEFINE Kept == UNCHANGED <<config, phoneState, callState>>
  <1>0. ASSUME Kept PROVE CallIsKnown'
    BY <1>0 DEF CallIsKnown
  <1>1. ASSUME NEW s \in Modes, SetPhoneState(s) PROVE CallIsKnown'
    BY <1>1 DEF SetPhoneState, NewCallState, EntersCall, LeavesCall, CallIsKnown
  <1>2. CASE \E s \in Sessions : GetOutputForAttr(s) \/ GetOffloadOutput(s)
    BY <1>0, <1>2 DEF GetOutputForAttr, GetOffloadOutput, GetOutput, phone
  <1>3. CASE \E s \in Sessions, clip \in Workload[config].clips : AskOffload(s, clip)
    BY <1>0, <1>3 DEF AskOffload, phone
  <1>4. CASE \E h \in Handles, s \in Sessions : ReleaseOutput(h, s)
    BY <1>0, <1>4 DEF ReleaseOutput, phone
  <1>5. CASE Recorder
    BY <1>0, <1>5 DEF Recorder, GetInputForAttr, ReleaseInput, StartInput, StartInputFails,
                      StopInput, phone, playback
  <1>6. CASE SetForceUse \/ SetSoftOnly
    BY <1>0, <1>6 DEF SetForceUse, SetSoftOnly, phone, playback
  <1>7. CASE UNCHANGED vars
    BY <1>0, <1>7 DEF vars
  <1> QED BY <1>1, <1>2, <1>3, <1>4, <1>5, <1>6, <1>7 DEF Next, Player

LEMMA GrantsNext ==
    ASSUME OffloadIsAskedFirst, TypeOK, GrantsAreCompressed, [Next]_vars
    PROVE  GrantsAreCompressed'
  <1>0. ASSUME grant' \subseteq grant PROVE GrantsAreCompressed'
    BY <1>0 DEF GrantsAreCompressed
  <1>1. ASSUME NEW s \in Sessions, NEW clip \in Workload[config].clips, AskOffload(s, clip)
        PROVE  GrantsAreCompressed'
    <2>1. clip.format \notin PcmFormats
      BY DEF OffloadIsAskedFirst, TypeOK
    <2> QED BY <1>1, <2>1 DEF AskOffload, GrantsAreCompressed
  <1>2. CASE \E s \in Sessions : GetOutputForAttr(s) \/ GetOffloadOutput(s)
    BY <1>0, <1>2 DEF GetOutputForAttr, GetOffloadOutput
  <1>3. CASE \E h \in Handles, s \in Sessions : ReleaseOutput(h, s)
    BY <1>0, <1>3 DEF ReleaseOutput
  <1>4. CASE Recorder
    BY <1>0, <1>4 DEF Recorder, GetInputForAttr, ReleaseInput, StartInput, StartInputFails,
                      StopInput, playback
  <1>5. CASE SetForceUse \/ SetSoftOnly \/ \E s \in Modes : SetPhoneState(s)
    BY <1>0, <1>5 DEF SetForceUse, SetSoftOnly, SetPhoneState, playback
  <1>6. CASE UNCHANGED vars
    BY <1>0, <1>6 DEF vars
  <1> QED BY <1>1, <1>2, <1>3, <1>4, <1>5, <1>6 DEF Next, Player

LEMMA ClientNext == OffloadIsAskedFirst /\ ClientInv /\ [Next]_vars => ClientInv'
  BY TypeNext, PlaybackNext, CallIsKnownNext, GrantsNext DEF ClientInv

(* The output of another session is only touched if it is on the port the  *)
(* request needs and HeldByOther does not see it.                          *)
LEMMA RequestSpares ==
    ASSUME PlaybackInv, NEW e, NEW req, NEW s, GetOutput(e, req, s),
           NEW h \in OpenOutputs, outputs[h].session # s,
           LET now   == Now(e, req, s)
               flags == FinalFlags(config, now, req)
               ports == DirectPort(now, req, flags)
           IN  outputs[h].port \in ports =>
                  \/ flags = {"DIRECT"} /\ now.directPcm
                  \/ "COMPRESS_OFFLOAD" \in flags /\ WithFlag("COMPRESS_OFFLOAD") # {}
    PROVE  outputs'[h] = outputs[h]
  <1> DEFINE now   == Now(e, req, s)
             moved == VoipToClose(e, req, s)
             flags == FinalFlags(config, now, req)
             ports == DirectPort(now, req, flags)
             held  == {k \in OpenOutputs \ moved : outputs[k].port \in ports}
             reuse == Reusable(held, req, s)
             other == HeldByOther(held, now, flags, s)
  <1>0. h \in Handles /\ h \in Nat
    BY Bounds DEF OpenOutputs
  <1>1. h \notin moved
    BY DEF VoipToClose
  <1>2. h \in held => h \in other
    BY DEF HeldByOther
  <1>3. CASE CloseOutputs(moved)
    BY <1>0, <1>1, <1>3 DEF CloseOutputs, OutputsWithout
  <1>4. ASSUME NEW k \in reuse, ReuseOutput(k, s, moved)
        PROVE  outputs'[h] = outputs[h]
    <2>1. k # h
      BY <1>4 DEF Reusable
    <2> QED BY <1>0, <1>1, <1>4, <2>1 DEF ReuseOutput, OutputsWithout
  <1>5. ASSUME other = {}, NEW p \in ports, OpenOutput(p, req.format, s, moved \cup held)
        PROVE  outputs'[h] = outputs[h]
    <2>1. h \notin moved \cup held
      BY <1>1, <1>2, <1>5
    <2>2. ASSUME NEW k \in Handles, \A j \in OpenOutputs \ (moved \cup held) : j < k,
                 outputs' = [OutputsWithout(moved \cup held) EXCEPT ![k] = Output(p, req.format, s)]
          PROVE  outputs'[h] = outputs[h]
      <3>1. k # h
        BY <1>0, <2>1, <2>2
      <3> QED BY <1>0, <2>1, <2>2, <3>1 DEF OutputsWithout
    <2>3. CASE CloseOutputs(moved \cup held)
      BY <1>0, <2>1, <2>3 DEF CloseOutputs, OutputsWithout
    <2> QED BY <1>5, <2>2, <2>3 DEF OpenOutput
  <1> QED BY <1>3, <1>4, <1>5 DEF GetOutput

(* No request of a session ends the direct output of another one.          *)
THEOREM NoSessionIsCutOffHolds ==
    ASSUME OffloadIsAskedFirst, RequestsAsUsual
    PROVE  Spec => NoSessionIsCutOff
  <1>1. ASSUME ClientInv, NEW s \in Sessions, NEW h \in OpenOutputs,
               outputs[h].session # s, outputs[h].port # "mmap_no_irq_out",
               GetOutputForAttr(s) \/ GetOffloadOutput(s)
        PROVE  outputs'[h] = outputs[h]
    <2>0. /\ outputs[h].port \in DirectPorts /\ outputs[h] \in OutputType
          /\ outputs[h].format \in MixPorts[outputs[h].port].formats
      BY <1>1 DEF ClientInv, PlaybackInv, PlaybackType, EachPortOpenOnce, OpenOutputs, OutputType
    <2>1. ASSUME NEW e, NEW req \in Workload[config].requests, GetOutput(e, req, s)
          PROVE  outputs'[h] = outputs[h]
      <3> DEFINE now   == Now(e, req, s)
                 flags == FinalFlags(config, now, req)
                 ports == DirectPort(now, req, flags)
      <3>1. req.format \in PcmFormats /\ UsualFlags(req.flags) /\ "VOIP_RX" \notin req.flags
        BY <1>1 DEF ClientInv, TypeOK, OffloadIsAskedFirst, RequestsAsUsual, IsPcm
      <3>2. UsualFlags(flags) /\ ("VOIP_RX" \in flags => now.voipFree)
        BY <3>1, PcmFlags
      <3> SUFFICES ASSUME outputs[h].port \in ports
                   PROVE  flags = {"DIRECT"} /\ now.directPcm
        BY <1>1, <2>1, RequestSpares DEF ClientInv
      <3>3. /\ "DIRECT" \in flags
            /\ req.format \in MixPorts[outputs[h].port].formats
            /\ FlagsOf(h) \cap DecisiveFlags = flags \cap DecisiveFlags
        BY DEF DirectPort, PortsFor, FlagsOf
      <3>4. now.voipFree => "VOIP_RX" \notin FlagsOf(h)
        BY <1>1 DEF Now, WithFlag
      <3>5. FlagsOf(h) = {"DIRECT"}
        BY <1>1, <2>0, <3>1, <3>2, <3>3, <3>4, PortFlags DEF FlagsOf, DecisiveFlags
      <3>6. now.directPcm
        BY <3>5 DEF Now
      <3>7. flags = {"DIRECT"}
        BY <3>2, <3>3, <3>5 DEF UsualFlags, DecisiveFlags
      <3> QED BY <3>6, <3>7
    <2>2. ASSUME NEW e, NEW g \in grant, GetOutput(e, OffloadRequest(g.format), s)
          PROVE  outputs'[h] = outputs[h]
      <3> DEFINE req   == OffloadRequest(g.format)
                 now   == Now(e, req, s)
                 flags == FinalFlags(config, now, req)
                 ports == DirectPort(now, req, flags)
      <3>1. req.format \notin PcmFormats
        BY <1>1 DEF ClientInv, GrantsAreCompressed, OffloadRequest
      <3> HIDE DEF req
      <3> SUFFICES ASSUME outputs[h].port \in ports
                   PROVE  "COMPRESS_OFFLOAD" \in flags /\ WithFlag("COMPRESS_OFFLOAD") # {}
        BY <1>1, <2>2, RequestSpares DEF ClientInv, req
      <3>2. "DIRECT" \in flags /\ req.format \in MixPorts[outputs[h].port].formats
        BY DEF DirectPort, PortsFor
      <3>3. "COMPRESS_OFFLOAD" \in flags
        BY <3>2, OffloadFlags DEF req
      <3>4. "COMPRESS_OFFLOAD" \in FlagsOf(h)
        BY <2>0, <3>1, <3>2, PortFlags DEF FlagsOf
      <3> QED BY <3>3, <3>4 DEF WithFlag
    <2> QED BY <1>1, <2>1, <2>2 DEF GetOutputForAttr, GetOffloadOutput
  <1>2. ClientInv /\ [Next]_vars =>
          [\A s \in Sessions, h \in OpenOutputs :
              /\ outputs[h].session # s /\ outputs[h].port # "mmap_no_irq_out"
              /\ outputs'[h] # outputs[h]
              => ~(GetOutputForAttr(s) \/ GetOffloadOutput(s))]_vars
    BY <1>1
  <1>3. ClientInv /\ [Next]_vars => ClientInv'
    BY ClientNext
  <1> QED BY <1>2, <1>3, ClientInit, PTL DEF Spec, NoSessionIsCutOff

(* Closing outputs starts nothing ...                                      *)
LEMMA ClosingStartsNothing ==
    ASSUME PlaybackInv, NEW H, CloseOutputs(H) \/ UNCHANGED <<outputs, tracks>>,
           NEW h \in Handles
    PROVE  ~Starts(h)
  BY DEF Starts, CloseOutputs, OutputsWithout, TracksWithout, PlaybackInv, PlaybackType

LEMMA ReleasingStartsNothing ==
    ASSUME PlaybackInv, NEW k \in Handles, NEW s \in Sessions, ReleaseOutput(k, s),
           NEW h \in Handles
    PROVE  ~Starts(h)
  <1>1. CASE outputs[k].openCount = 1
    BY <1>1, ClosingStartsNothing DEF ReleaseOutput
  <1>2. CASE outputs[k].openCount # 1
    <2>1. /\ outputs' = [outputs EXCEPT ![k] = [outputs[k] EXCEPT !.openCount = @ - 1]]
          /\ tracks' = [tracks EXCEPT ![k] = [tracks[k] EXCEPT ![s] = @ - 1]]
      BY <1>2 DEF ReleaseOutput, PlaybackInv, PlaybackType
    <2>2. /\ tracks[k] \in [Sessions -> 0 .. MaxTracks] /\ tracks[k][s] > 0
          /\ outputs[k] \in OutputType
      BY DEF PlaybackInv, PlaybackType, OutputServesItsSession, ReleaseOutput
    <2>3. CASE h = k
      <3>1. /\ outputs'[h].format = outputs[h].format /\ outputs[h] # NoOutput
            /\ tracks'[h] = [tracks[h] EXCEPT ![s] = @ - 1]
        BY <2>1, <2>2, <2>3, Bounds DEF OutputType, PlaybackInv, PlaybackType
      <3>2. \A t \in Sessions : tracks'[h][t] = IF t = s THEN tracks[h][s] - 1 ELSE tracks[h][t]
        BY <2>2, <2>3, <3>1
      <3>3. \A t \in Sessions : ~(tracks'[h][t] > tracks[h][t])
        BY <2>2, <2>3, <3>2, Bounds
      <3> QED BY <3>1, <3>3 DEF Starts
    <2>4. CASE h # k
      BY <2>1, <2>4, Bounds DEF Starts, PlaybackInv, PlaybackType
    <2> QED BY <2>3, <2>4
  <1> QED BY <1>1, <1>2

(* ... and a request starts only what its flags lead to.                   *)
LEMMA RequestStartsItsPort ==
    ASSUME PlaybackInv, NEW e, NEW req, NEW s \in Sessions, GetOutput(e, req, s),
           NEW h \in Handles, Starts(h)
    PROVE  LET now   == Now(e, req, s)
               flags == FinalFlags(config, now, req)
           IN  outputs'[h].port \in DirectPort(now, req, flags)
  <1> DEFINE now   == Now(e, req, s)
             moved == VoipToClose(e, req, s)
             flags == FinalFlags(config, now, req)
             ports == DirectPort(now, req, flags)
             held  == {k \in OpenOutputs \ moved : outputs[k].port \in ports}
             reuse == Reusable(held, req, s)
             other == HeldByOther(held, now, flags, s)
  <1> HIDE DEF now, moved, flags, ports
  <1>1. \/ CloseOutputs(moved)
        \/ \E k \in reuse : ReuseOutput(k, s, moved)
        \/ \E p \in ports : OpenOutput(p, req.format, s, moved \cup held)
    BY DEF GetOutput, now, moved, flags, ports
  <1>2. ASSUME NEW k \in reuse, ReuseOutput(k, s, moved)
        PROVE  outputs'[h].port \in ports
    <2>1. /\ outputs' = [OutputsWithout(moved) EXCEPT ![k] = [OutputsWithout(moved)[k] EXCEPT !.openCount = @ + 1]]
          /\ tracks' = [TracksWithout(moved) EXCEPT ![k] = [TracksWithout(moved)[k] EXCEPT ![s] = @ + 1]]
      BY <1>2 DEF ReuseOutput
    <2>2. /\ k \in Handles \ moved /\ outputs[k] \in OutputType /\ outputs[k].port \in ports
      BY <1>2 DEF Reusable, PlaybackInv, PlaybackType, OpenOutputs
    <2>3. CASE h = k
      <3>1. outputs'[h] = [outputs[h] EXCEPT !.openCount = @ + 1]
        BY <2>1, <2>2, <2>3 DEF OutputsWithout
      <3> QED BY <2>2, <2>3, <3>1 DEF OutputType
    <2>4. CASE h # k
      <3>1. outputs'[h] = OutputsWithout(moved)[h] /\ tracks'[h] = TracksWithout(moved)[h]
        BY <2>1, <2>4 DEF OutputsWithout, TracksWithout
      <3> QED BY <3>1 DEF Starts, OutputsWithout, TracksWithout, PlaybackInv, PlaybackType
    <2> QED BY <2>3, <2>4
  <1>3. ASSUME NEW p \in ports, OpenOutput(p, req.format, s, moved \cup held)
        PROVE  outputs'[h].port \in ports
    <2> DEFINE old == moved \cup held
    <2>1. CASE CloseOutputs(old)
      BY <2>1, ClosingStartsNothing
    <2>2. ASSUME NEW k \in Handles,
                 outputs' = [OutputsWithout(old) EXCEPT ![k] = Output(p, req.format, s)],
                 tracks' = [TracksWithout(old) EXCEPT ![k] = [NoTracks EXCEPT ![s] = 1]]
          PROVE  outputs'[h].port \in ports
      <3> HIDE DEF old
      <3>1. CASE h = k
        <4>1. outputs'[h] = Output(p, req.format, s)
          BY <2>2, <3>1 DEF OutputsWithout
        <4> QED BY <4>1 DEF Output
      <3>2. CASE h # k
        <4>1. outputs'[h] = OutputsWithout(old)[h] /\ tracks'[h] = TracksWithout(old)[h]
          BY <2>2, <3>2 DEF OutputsWithout, TracksWithout
        <4> QED BY <4>1 DEF Starts, OutputsWithout, TracksWithout, PlaybackInv, PlaybackType
      <3> QED BY <3>1, <3>2
    <2> QED BY <1>3, <2>1, <2>2 DEF OpenOutput
  <1>4. ~CloseOutputs(moved)
    BY ClosingStartsNothing
  <1> QED BY <1>1, <1>2, <1>3, <1>4 DEF now, flags, ports

(* While a call or a recording has the DSP no clip starts on it: the flags *)
(* of an offloaded track are taken away whenever it was told it could.     *)
THEOREM NoOffloadStartsWhileBusyHolds ==
    ASSUME OffloadIsAskedFirst
    PROVE  Spec => NoOffloadStartsWhileBusy
  <1>1. ASSUME ClientInv, Next, DspBusy, NEW h \in Handles, Starts(h)
        PROVE  "COMPRESS_OFFLOAD" \notin MixPorts[outputs'[h].port].flags
    <2>0. PlaybackInv
      BY <1>1 DEF ClientInv
    <2>1. ASSUME NEW s \in Sessions, NEW e, NEW req \in Workload[config].requests,
                 GetOutput(e, req, s)
          PROVE  "COMPRESS_OFFLOAD" \notin MixPorts[outputs'[h].port].flags
      <3>1. req.format \in PcmFormats
        BY <1>1 DEF ClientInv, TypeOK, OffloadIsAskedFirst, IsPcm
      <3>2. \E flags : outputs'[h].port \in PortsFor(req.format, flags)
        BY <1>1, <2>0, <2>1, RequestStartsItsPort DEF DirectPort
      <3>3. outputs'[h].port \in DirectPorts /\ req.format \in MixPorts[outputs'[h].port].formats
        BY <3>2 DEF PortsFor
      <3> QED BY <3>1, <3>3, PortFlags
    <2>2. ASSUME NEW s \in Sessions, NEW e, NEW g \in grant,
                 GetOutput(e, OffloadRequest(g.format), s)
          PROVE  FALSE
      <3> DEFINE req   == OffloadRequest(g.format)
                 now   == Now(e, req, s)
                 flags == FinalFlags(config, now, req)
      <3>1. "DIRECT" \in flags
        BY <1>1, <2>0, <2>2, RequestStartsItsPort DEF DirectPort
      <3>2. /\ ~(config.voiceConc /\ config.voicePlayConcDisabled /\ CallRunning(now))
            /\ ~(config.recPlayConc /\ config.recPlayConcDisabled /\ now.recording)
        BY <3>1, OffloadFlags
      <3>3. PlaybackRestricted /\ phoneState = "IN_CALL" =>
               config.voiceConc /\ config.voicePlayConcDisabled /\ CallRunning(now)
        BY <1>1 DEF ClientInv, CallIsKnown, PlaybackRestricted, CallRunning, Now
      <3>4. Active \cap OnPrimary # {} => now.recording
        BY DEF Now, Recording
      <3> QED BY <1>1, <3>2, <3>3, <3>4 DEF DspBusy, RecPlayRestricted
    <2>3. ASSUME NEW s \in Sessions, NEW clip, AskOffload(s, clip) PROVE FALSE
      BY <1>1, <2>0, <2>3, ClosingStartsNothing DEF AskOffload
    <2>4. ASSUME NEW k \in Handles, NEW s \in Sessions, ReleaseOutput(k, s) PROVE FALSE
      BY <1>1, <2>0, <2>4, ReleasingStartsNothing
    <2>5. CASE Recorder
      <3>1. UNCHANGED <<outputs, tracks>> \/ CloseOutputs(RecordingCloses)
        BY <2>5 DEF Recorder, GetInputForAttr, ReleaseInput, StopInput, StartInput,
                    StartInputFails, playback
      <3> QED BY <1>1, <2>0, <3>1, ClosingStartsNothing
    <2>6. CASE SetForceUse \/ SetSoftOnly
      <3>1. UNCHANGED <<outputs, tracks>> \/ CloseOutputs(WithFlag("COMPRESS_OFFLOAD"))
        BY <2>6 DEF SetForceUse, SetSoftOnly, playback
      <3> QED BY <1>1, <2>0, <3>1, ClosingStartsNothing
    <2>7. ASSUME NEW s \in Modes, SetPhoneState(s) PROVE FALSE
      <3>1. CloseOutputs(PhoneStateCloses(s))
        BY <2>7 DEF SetPhoneState
      <3> QED BY <1>1, <2>0, <3>1, ClosingStartsNothing
    <2>8. CASE \E s \in Sessions : GetOutputForAttr(s) \/ GetOffloadOutput(s)
      BY <2>1, <2>2, <2>8 DEF GetOutputForAttr, GetOffloadOutput
    <2> QED BY <1>1, <2>3, <2>4, <2>5, <2>6, <2>7, <2>8 DEF Next, Player
  <1>2. ClientInv /\ [Next]_vars =>
          [DspBusy => \A h \in Handles :
              Starts(h) => "COMPRESS_OFFLOAD" \notin MixPorts[outputs'[h].port].flags]_vars
    BY <1>1
  <1>3. ClientInv /\ [Next]_vars => ClientInv'
    BY ClientNext
  <1> QED BY <1>2, <1>3, ClientInit, PTL DEF Spec, NoOffloadStartsWhileBusy
=============================================================================
