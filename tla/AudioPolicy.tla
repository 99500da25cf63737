---------------------------- MODULE AudioPolicy ----------------------------
(***************************************************************************)
(* The audio policy manager (policy_hal/AudioPolicyManager.cpp): the       *)
(* direct outputs it opens for playback sessions, the inputs it opens for  *)
(* record clients, and the phone state that decides who may use the DSP.   *)
(*                                                                         *)
(* AudioPolicyService calls it under one lock, so that an action is a      *)
(* whole call; the races are between calls: of several clients, of the     *)
(* telephony service, and between a question and the call that relies on   *)
(* its answer.  AudioPolicyManager, the base class, is not in this         *)
(* repository: what its methods do to this state is marked "base".         *)
(***************************************************************************)
EXTENDS AudioFlags

CONSTANTS
    Handles,       \* output handles, in the order in which they are given out
    Sessions,      \* playback sessions
    MaxTracks,     \* bound: tracks of a session on one direct output
    MaxSuspends,   \* bound: suspensions of the primary output at a time
    RecClients,    \* record clients
    Workload,      \* bound: what the clients do in each configuration
    Source,        \* Source[r]: the audio source of record client r
    OnPrimary,     \* the record clients whose input is on the primary module
    SoundTrigger,  \* the record clients of a sound trigger session
    NoOutput       \* a handle that is not open

Sources == {"MIC", "HOTWORD", "VOICE_CALL", "VOICE_COMMUNICATION"}

(* requests      getOutputForAttr calls, the session left out              *)
(* clips         the offload infos players ask about                       *)
(* surroundings  what the HAL and the devices answer during a request      *)
(* recClients    the record clients that come                              *)
(* soft          whether mono output and software effects come and go      *)
WorkloadFields == {"requests", "clips", "surroundings", "recClients", "soft"}

ASSUME AudioPolicyAssumption ==
    /\ DOMAIN Workload = Configs
    /\ \A c \in Configs : /\ DOMAIN Workload[c] = WorkloadFields
                          /\ \A req \in Workload[c].requests : req.format \in Formats
                          /\ \A clip \in Workload[c].clips : clip.format \in Formats
    /\ Handles \subseteq Nat
    /\ MaxTracks \in Nat \ {0}
    /\ MaxSuspends \in Nat
    /\ Source \in [RecClients -> Sources]
    /\ OnPrimary \subseteq RecClients
    /\ SoundTrigger \subseteq RecClients
    /\ NoOutput \notin [port : DirectPorts, format : Formats, session : Sessions,
                        openCount : 1 .. MaxTracks]

VARIABLES
    config,       \* mApmConfigs and the policy configuration; never changes
    phoneState,   \* mEngine->getPhoneState()
    prevState,    \* mPrevPhoneState
    callState,    \* mvoice_call_state, which is only tested for zero
    outputs,      \* mOutputs without the mixed outputs, which stay open
    tracks,       \* tracks[h][s]: the live tracks of session s on output h
    suspended,    \* AudioFlinger: how often the primary output is suspended
    reentries,    \* history: suspensions for a call that had one already
    grant,        \* the clip isOffloadSupported last said yes to, of each session
    softOnly,     \* mMasterMono, or an effect that cannot be offloaded
    inputs,       \* the state of each record client's input
    requesting,   \* mIsInputRequestOnProgress
    recPlayConc,  \* HAL: the last rec_play_conc_on it was sent
    capture       \* SoundTrigger::setCaptureState

suspension == <<suspended, reentries>>
playback == <<outputs, tracks, suspension, grant, softOnly>>
record   == <<inputs, requesting, recPlayConc, capture>>
phone    == <<phoneState, prevState, callState>>
vars     == <<config, phoneState, prevState, callState, outputs, tracks, suspended,
              reentries, grant, softOnly, inputs, requesting, recPlayConc, capture>>

-----------------------------------------------------------------------------
(* Outputs.  The flags of a descriptor are those of its mix port.          *)
Output(p, f, s) == [port |-> p, format |-> f, session |-> s, openCount |-> 1]

OpenOutputs == {h \in Handles : outputs[h] # NoOutput}

FlagsOf(h) == MixPorts[outputs[h].port].flags

WithFlag(flag) == {h \in OpenOutputs : flag \in FlagsOf(h)}

DsdOutputs == {h \in OpenOutputs : outputs[h].format = "DSD"}

NoTracks == [s \in Sessions |-> 0]

(* The tracks of an output that is closed are invalidated: their clients   *)
(* ask for an output again.                                                *)
OutputsWithout(H) == [h \in Handles |-> IF h \in H THEN NoOutput ELSE outputs[h]]

TracksWithout(H) == [h \in Handles |-> IF h \in H THEN NoTracks ELSE tracks[h]]

CloseOutputs(H) ==
    /\ outputs' = OutputsWithout(H)
    /\ tracks' = TracksWithout(H)

(* for (i = 0; i < mOutputs.size(); i++) if (P) closeOutput(keyAt(i)):     *)
(* the output after one that is closed moves to its index and is skipped.  *)
Skipping(open, P) ==
    LET run(h) == {g \in P : g <= h /\ \A k \in open : g <= k /\ k <= h => k \in P}
    IN  {h \in P : Cardinality(run(h)) % 2 = 1}

-----------------------------------------------------------------------------
(* Inputs.                                                                 *)
Active == {r \in RecClients : inputs[r] = "active"}

(* Mutant of Recording: only a request in progress counts.                 *)
RecordingRequestOnly == requesting

Recording == requesting \/ Active \cap OnPrimary # {}

RecPlayRestricted == config.recPlayConc /\ config.recPlayConcDisabled

-----------------------------------------------------------------------------
(* Playback requests.  e is what the HAL answers (vr_audio_mode_on and the *)
(* VoIP sample rate), which devices are connected, and whether the route   *)
(* of a session has moved since it opened its output.                      *)
Now(e, req, s) ==
    LET voip == WithFlag("VOIP_RX")
    IN  [mode |-> phoneState, prevMode |-> prevState, callState |-> callState,
         recording |-> Recording,
         voipFree |-> IF config.compressVoip THEN voip = {} /\ e.rateMatches
                      ELSE \A h \in voip : outputs[h].session = s /\ e.moved,
         directPcm |-> \E h \in OpenOutputs : FlagsOf(h) = {"DIRECT"},
         vr |-> e.vr, proxy |-> e.proxy, telephonyTx |-> e.telephonyTx]

(* "close voip output if currently open by the same client with different  *)
(* device", without COMPRESS_VOIP_ENABLED.                                 *)
VoipToClose(e, req, s) ==
    IF /\ ~config.compressVoip /\ e.moved
       /\ req.stream = "VOICE_CALL" /\ IsPcm(req) /\ req.monoVoipRate
       /\ "COMPRESS_OFFLOAD" \notin req.flags
    THEN {h \in WithFlag("VOIP_RX") : outputs[h].session = s}
    ELSE {}

(* The direct profile, if any, the flags lead to.                          *)
DirectPort(now, req, flags) ==
    IF softOnly \/ "DIRECT" \notin flags \/ Refused(config, now, req) THEN {}
    ELSE PortsFor(req.format, flags)

(* "reuse direct output if currently open by the same client and           *)
(* configured with same parameters"                                        *)
Reusable(held, req, s) ==
    {h \in held : /\ ~config.multipleOffload
                  /\ outputs[h].format = req.format
                  /\ outputs[h].session = s}

(* Mutant of HeldByOther: compressed outputs are not looked at.            *)
HeldByOtherPcm(held, now, flags, s) ==
    {h \in held : outputs[h].session # s /\ flags = {"DIRECT"} /\ now.directPcm}

(* "do not reuse direct pcm output because current client is not the same  *)
(* as requesting client for different output conf"                         *)
HeldByOther(held, now, flags, s) ==
    {h \in held :
        /\ outputs[h].session # s
        /\ \/ flags = {"DIRECT"} /\ now.directPcm
           \/ "COMPRESS_OFFLOAD" \in flags /\ WithFlag("COMPRESS_OFFLOAD") # {}}

(* Mutant of ReuseOutput: mDirectOpenCount is not incremented.             *)
ReuseOutputNoCount(h, s, old) ==
    /\ tracks[h][s] < MaxTracks
    /\ outputs' = OutputsWithout(old)
    /\ tracks' = [TracksWithout(old) EXCEPT ![h][s] = @ + 1]

ReuseOutput(h, s, old) ==
    /\ tracks[h][s] < MaxTracks
    /\ outputs' = [OutputsWithout(old) EXCEPT ![h].openCount = @ + 1]
    /\ tracks' = [TracksWithout(old) EXCEPT ![h][s] = @ + 1]

(* Mutant of OpenOutput: the output of the profile is not closed first.    *)
OpenOutputKeepsOld(p, format, s, old) ==
    \E h \in Handles : /\ \A k \in OpenOutputs : k < h
                       /\ outputs' = [outputs EXCEPT ![h] = Output(p, format, s)]
                       /\ tracks' = [tracks EXCEPT ![h] = [NoTracks EXCEPT ![s] = 1]]

(* A new direct output, after the old ones are closed: a failure of open() *)
(* leaves the session with neither.  (A handle is larger than all that are *)
(* open; Handles bounds how many are used in a row.)                       *)
OpenOutput(p, format, s, old) ==
    LET kept == OpenOutputs \ old
        free == {h \in Handles : \A k \in kept : k < h}
    IN  \/ CloseOutputs(old)
        \/ \E h \in free :
              /\ \A k \in free : h <= k
              /\ outputs' = [OutputsWithout(old) EXCEPT ![h] = Output(p, format, s)]
              /\ tracks' = [TracksWithout(old) EXCEPT ![h] = [NoTracks EXCEPT ![s] = 1]]

(* canOpenNewIo() is false while the output of the profile is open.        *)
GetOutput(e, req, s) ==
    LET now   == Now(e, req, s)
        moved == VoipToClose(e, req, s)
        flags == FinalFlags(config, now, req)
        ports == DirectPort(now, req, flags)
        held  == {h \in OpenOutputs \ moved : outputs[h].port \in ports}
        reuse == Reusable(held, req, s)
        other == HeldByOther(held, now, flags, s)
    IN  /\ \/ /\ ports = {} \/ (config.multipleOffload /\ held # {}) \/ (reuse = {} /\ other # {})
              /\ CloseOutputs(moved)     \* a mixed output, or none
           \/ \E h \in reuse : ReuseOutput(h, s, moved)
           \/ /\ reuse = {} /\ other = {}
              /\ config.multipleOffload => held = {}
              /\ \E p \in ports : OpenOutput(p, req.format, s, moved \cup held)
        /\ UNCHANGED <<config, phone, suspension, softOnly, record>>

(* getOutputForAttr -> getOutputForDevices                                 *)
GetOutputForAttr(s) ==
    /\ \E e \in Workload[config].surroundings, req \in Workload[config].requests :
          GetOutput(e, req, s)
    /\ UNCHANGED grant

(* A player asks whether the DSP may decode its clip ...                   *)
AskOffload(s, clip) ==
    /\ grant' = {g \in grant : g.session # s} \cup
                IF IsOffloadSupported(config, StateInCall(phoneState), Recording, softOnly, clip)
                THEN {[session |-> s, format |-> clip.format]}
                ELSE {}
    /\ UNCHANGED <<config, phone, outputs, tracks, suspension, softOnly, record>>

OffloadRequest(format) ==
    [stream |-> "MUSIC", format |-> format, flags |-> {"COMPRESS_OFFLOAD"},
     media |-> TRUE, monoVoipRate |-> FALSE]

(* ... and relies on the answer when it creates its track.                 *)
GetOffloadOutput(s) ==
    \E e \in Workload[config].surroundings, g \in grant :
        /\ g.session = s
        /\ GetOutput(e, OffloadRequest(g.format), s)
        /\ grant' = grant \ {g}

(* Mutant of ReleaseOutput: the last track leaves the output open.         *)
ReleaseOutputStaysOpen(h, s) ==
    /\ tracks[h][s] > 0
    /\ outputs' = [outputs EXCEPT ![h].openCount = @ - 1]
    /\ tracks' = [tracks EXCEPT ![h][s] = @ - 1]
    /\ UNCHANGED <<config, phone, suspension, grant, softOnly, record>>

(* base: the last track of a direct output closes it.                      *)
ReleaseOutput(h, s) ==
    /\ tracks[h][s] > 0
    /\ IF outputs[h].openCount = 1
       THEN CloseOutputs({h})
       ELSE /\ outputs' = [outputs EXCEPT ![h].openCount = @ - 1]
            /\ tracks' = [tracks EXCEPT ![h][s] = @ - 1]
    /\ UNCHANGED <<config, phone, suspension, grant, softOnly, record>>

(* base: mono output, which closes what is offloaded, or a software effect *)
(* goes on or off.                                                         *)
SetSoftOnly ==
    /\ Workload[config].soft
    /\ softOnly' = ~softOnly
    /\ \/ UNCHANGED <<outputs, tracks>>
       \/ softOnly' /\ CloseOutputs(WithFlag("COMPRESS_OFFLOAD"))
    /\ UNCHANGED <<config, phone, suspension, grant, record>>

-----------------------------------------------------------------------------
(* Record clients.  A record client has an input of its own here.          *)
(*                                                                         *)
(* The sources a voice call excludes, for getInputForAttr and for the      *)
(* inputs setPhoneState closes.                                            *)
CallExcludes(r) ==
    CASE Source[r] \in {"MIC", "HOTWORD"} -> config.voiceRecConcDisabled
      [] Source[r] = "VOICE_COMMUNICATION" -> config.voiceVoipConcDisabled
      [] Source[r] = "VOICE_CALL" -> FALSE

InputBlocked(r) ==
    /\ config.voiceConc
    /\ CallRunning([mode |-> phoneState, prevMode |-> prevState, callState |-> callState])
    /\ CallExcludes(r)

GetInputForAttr(r) ==
    /\ r \in Workload[config].recClients
    /\ inputs[r] = "none"
    /\ ~InputBlocked(r)
    /\ inputs' = [inputs EXCEPT ![r] = "open"]
    /\ UNCHANGED <<config, phone, playback, requesting, recPlayConc, capture>>

(* base closeInput, stopInput: the last active input of the primary module *)
(* gives the microphone back to the sound trigger service.                 *)
LastOnPrimary(K) == K \cap OnPrimary # {} /\ (Active \ K) \cap OnPrimary = {}

(* stopInput tests "(contains(device) && count) == 0": a device of another *)
(* module is taken for the last one.                                       *)
VaLast(K) ==
    /\ config.vaConc
    /\ \/ K \ OnPrimary # {}
       \/ K # {} /\ ((Active \ K) \cap OnPrimary) \ SoundTrigger = {}

(* Mutants of StopInputs: the HAL is told at every stop; the sound trigger *)
(* service is told at every stop.                                          *)
StopInputsHalAlways(K) ==
    /\ recPlayConc' = (recPlayConc /\ ~(RecPlayRestricted /\ K # {}))
    /\ capture' = (capture /\ ~LastOnPrimary(K \cap Active) /\ ~VaLast(K))

StopInputsCaptureAlways(K) ==
    /\ recPlayConc' = (recPlayConc /\ ~(RecPlayRestricted /\ K # {} /\ (Active \ K) \cap OnPrimary = {}))
    /\ capture' = (capture /\ K \cap OnPrimary = {})

(* What stopInput, called for each of K, tells the HAL and the sound       *)
(* trigger service, also for a client the base class refuses to stop.      *)
StopInputs(K) ==
    /\ recPlayConc' = (recPlayConc /\ ~(RecPlayRestricted /\ K # {} /\ (Active \ K) \cap OnPrimary = {}))
    /\ capture' = (capture /\ ~LastOnPrimary(K \cap Active) /\ ~VaLast(K))

StopInput(r) ==
    /\ inputs[r] # "none"
    /\ inputs' = [inputs EXCEPT ![r] = "open"]
    /\ StopInputs({r})
    /\ UNCHANGED <<config, phone, playback, requesting>>

(* base *)
ReleaseInput(r) ==
    /\ inputs[r] = "open"
    /\ inputs' = [inputs EXCEPT ![r] = "none"]
    /\ capture' = (capture /\ ~LastOnPrimary({r}))
    /\ UNCHANGED <<config, phone, playback, requesting, recPlayConc>>

(* The first recording on the primary module is announced to the HAL, and  *)
(* compressed playback has to end.                                         *)
FirstRecording == RecPlayRestricted /\ Active \cap OnPrimary = {}

(* "close compress tracks"                                                 *)
RecordingCloses ==
    IF FirstRecording THEN Skipping(OpenOutputs, WithFlag("COMPRESS_OFFLOAD")) ELSE {}

(* startInput tells the sound trigger service about the first input.       *)
FirstOnPrimary(r) ==
    /\ r \in OnPrimary
    /\ IF config.vaConc
       THEN Cardinality(((Active \cup {r}) \cap OnPrimary) \ SoundTrigger) = 1
       ELSE Active \cap OnPrimary = {}

StartInput(r) ==
    /\ inputs[r] = "open"
    /\ CloseOutputs(RecordingCloses)
    /\ recPlayConc' = (recPlayConc \/ FirstRecording)
    /\ inputs' = [inputs EXCEPT ![r] = "active"]
    /\ requesting' = (requesting /\ ~config.recPlayConc)
    /\ capture' = (capture \/ FirstOnPrimary(r))
    /\ UNCHANGED <<config, phone, suspension, grant, softOnly>>

(* inputDesc->start() fails: startInput returns in the middle.             *)
StartInputFails(r) ==
    /\ inputs[r] = "open"
    /\ CloseOutputs(RecordingCloses)
    /\ recPlayConc' = (recPlayConc \/ FirstRecording)
    /\ requesting' = (requesting \/ config.recPlayConc)
    /\ UNCHANGED <<config, phone, suspension, grant, softOnly, inputs, capture>>

(* setForceUse closes the active inputs that cannot reach the device that  *)
(* is chosen now, but for hotword recording.                               *)
SetForceUse ==
    \E K \in SUBSET (Active \ {r \in SoundTrigger : Source[r] = "HOTWORD"}) :
        /\ K # {}
        /\ inputs' = [r \in RecClients |-> IF r \in K THEN "none" ELSE inputs[r]]
        /\ capture' = (capture /\ ~LastOnPrimary(K))
        /\ UNCHANGED <<config, phone, playback, requesting, recPlayConc>>

-----------------------------------------------------------------------------
(* setPhoneState.                                                          *)
PlaybackRestricted == config.voiceConc /\ config.voicePlayConcDisabled

EntersCall(s) == config.voiceConc /\ phoneState # "IN_CALL" /\ s = "IN_CALL"

LeavesCall(s) ==
    /\ PlaybackRestricted
    /\ phoneState \in {"IN_CALL", "IN_COMMUNICATION"} /\ s = "NORMAL"
    /\ callState

(* The inputs of the clients the call excludes.                            *)
CallClosesInputs(s) == IF EntersCall(s) THEN {r \in Active : CallExcludes(r)} ELSE {}

(* With the fast fallback a profile must carry one of the flags of         *)
(* isFastFallBackNeeded, which a VoIP profile does not.                    *)
CallEnds(h) ==
    IF FallBackFlag(config) = "FAST"
    THEN config.voicePlayConcDisabled /\ "COMPRESS_OFFLOAD" \in FlagsOf(h)
    ELSE IF "VOIP_RX" \in FlagsOf(h)
    THEN config.voiceVoipConcDisabled
    ELSE config.voicePlayConcDisabled /\ "DIRECT" \in FlagsOf(h)

CallCloses(s) ==
    IF EntersCall(s) THEN Skipping(OpenOutputs, {h \in OpenOutputs : CallEnds(h)}) ELSE {}

(* Mutant of DsdCloses: DSD is stopped for a voice call only.              *)
DsdClosesInCall(open, s) ==
    IF config.voiceDsdConcDisabled /\ s = "IN_CALL" THEN Skipping(open, DsdOutputs \cap open) ELSE {}

(* Whatever the new state is.                                              *)
DsdCloses(open, s) ==
    IF config.voiceDsdConcDisabled THEN Skipping(open, DsdOutputs \cap open) ELSE {}

(* "close compress output to make sure session will be closed before       *)
(* timeout(60sec)"                                                         *)
CommunicationCloses(open, s) ==
    IF RecPlayRestricted /\ s = "IN_COMMUNICATION"
    THEN Skipping(open, WithFlag("COMPRESS_OFFLOAD") \cap open)
    ELSE {}

PhoneStateCloses(s) ==
    LET afterCall == OpenOutputs \ CallCloses(s)
        afterDsd  == afterCall \ DsdCloses(afterCall, s)
    IN  CallCloses(s) \cup DsdCloses(afterCall, s) \cup CommunicationCloses(afterDsd, s)

SuspendsPrimary(s) ==
    EntersCall(s) /\ FallBackFlag(config) = "FAST"
    /\ config.voicePlayConcDisabled /\ config.primaryIsDeepBuffer

RestoresPrimary(s) == LeavesCall(s) /\ FallBackFlag(config) = "FAST"

(* base: AudioFlinger counts what suspends an output, and a restore takes  *)
(* one off.                                                                *)
Suspensions(s) ==
    CASE SuspendsPrimary(s) -> suspended + 1
      [] RestoresPrimary(s) /\ suspended > 0 -> suspended - 1
      [] OTHER -> suspended

(* Mutant of NewCallState: every return to NORMAL forgets the call.        *)
NewCallStateForgets(s) == EntersCall(s) \/ (callState /\ s # "NORMAL")

NewCallState(s) == EntersCall(s) \/ (callState /\ ~LeavesCall(s))

SetPhoneState(s) ==
    /\ s # phoneState
    /\ phoneState' = s /\ prevState' = phoneState
    /\ callState' = NewCallState(s)
    /\ inputs' = [r \in RecClients |-> IF r \in CallClosesInputs(s) THEN "none" ELSE inputs[r]]
    /\ StopInputs(CallClosesInputs(s))
    /\ CloseOutputs(PhoneStateCloses(s))
    /\ SuspendsPrimary(s) => suspended < MaxSuspends
    /\ suspended' = Suspensions(s)
    /\ reentries' = IF SuspendsPrimary(s) /\ callState /\ suspended > 0
                    THEN reentries + 1 ELSE reentries
    /\ UNCHANGED <<config, grant, softOnly, requesting>>

-----------------------------------------------------------------------------
(* The constructor does not initialise mvoice_call_state, which is read    *)
(* with VOICE_CONCURRENCY only.                                            *)
Init ==
    /\ config \in Configs
    /\ phoneState = "NORMAL" /\ prevState = "NORMAL"
    /\ callState \in IF config.voiceConc THEN BOOLEAN ELSE {FALSE}
    /\ outputs = [h \in Handles |-> NoOutput]
    /\ tracks = [h \in Handles |-> NoTracks]
    /\ suspended = 0 /\ reentries = 0
    /\ grant = {}
    /\ softOnly = FALSE
    /\ inputs = [r \in RecClients |-> "none"]
    /\ requesting = FALSE
    /\ recPlayConc = FALSE
    /\ capture = FALSE

Player ==
    \/ \E s \in Sessions : GetOutputForAttr(s) \/ GetOffloadOutput(s)
    \/ \E s \in Sessions, clip \in Workload[config].clips : AskOffload(s, clip)
    \/ \E h \in Handles, s \in Sessions : ReleaseOutput(h, s)

Recorder ==
    \E r \in RecClients :
        \/ GetInputForAttr(r) \/ ReleaseInput(r)
        \/ StartInput(r) \/ StartInputFails(r) \/ StopInput(r)

Next ==
    \/ Player \/ Recorder
    \/ \E s \in Modes : SetPhoneState(s)
    \/ SetForceUse \/ SetSoftOnly

Spec == Init /\ [][Next]_vars

(***************************************************************************)
(* What the theorems about other sessions and the DSP assume of the        *)
(* clients.                                                                *)
(***************************************************************************)

(* A player of a compressed clip asks isOffloadSupported before it asks    *)
(* for an output, and it asks for compressed clips only.                   *)
OffloadIsAskedFirst ==
    \A c \in Configs : /\ \A req \in Workload[c].requests : IsPcm(req)
                       /\ \A clip \in Workload[c].clips : clip.format \notin PcmFormats

(* A PCM client asks for a direct output with no other flag than that of   *)
(* MMAP or of a tunneled video, and leaves VOIP_RX to the policy manager.  *)
UsualFlags(flags) ==
    /\ "COMPRESS_OFFLOAD" \notin flags
    /\ "DIRECT" \in flags =>
          "HW_AV_SYNC" \in flags \/ flags \ {"MMAP_NOIRQ", "VOIP_RX"} = {"DIRECT"}

RequestsAsUsual ==
    \A c \in Configs : \A req \in Workload[c].requests :
        UsualFlags(req.flags) /\ "VOIP_RX" \notin req.flags

(***************************************************************************)
(* Properties                                                              *)
(***************************************************************************)

OutputType == [port : DirectPorts, format : Formats, session : Sessions, openCount : 1 .. MaxTracks]

GrantType == [session : Sessions, format : Formats]

(* The types of the variables.                                             *)
TypeOK ==
    /\ config \in Configs
    /\ phoneState \in Modes /\ prevState \in Modes /\ callState \in BOOLEAN
    /\ outputs \in [Handles -> OutputType \cup {NoOutput}]
    /\ tracks \in [Handles -> [Sessions -> 0 .. MaxTracks]]
    /\ suspended \in 0 .. MaxSuspends /\ reentries \in Nat /\ softOnly \in BOOLEAN
    /\ grant \subseteq GrantType
    /\ inputs \in [RecClients -> {"none", "open", "active"}]
    /\ requesting \in BOOLEAN /\ recPlayConc \in BOOLEAN /\ capture \in BOOLEAN

(* mDirectOpenCount is the number of live tracks, and all of them belong   *)
(* to mDirectClientSession: no session plays into the stream of another    *)
(* one, no stream is closed under a live track of its session and none is  *)
(* left open after the last.                                               *)
OutputServesItsSession ==
    \A h \in Handles, s \in Sessions :
        tracks[h][s] = IF outputs[h] # NoOutput /\ outputs[h].session = s
                       THEN outputs[h].openCount ELSE 0

(* Whatever is closed, kept or reopened to serve a request, a mix port is  *)
(* never open twice, and only for a format it carries: the hardware behind *)
(* it has one stream (getOutputForDevices, canOpenNewIo).                  *)
EachPortOpenOnce ==
    /\ \A h, k \in OpenOutputs : outputs[h].port = outputs[k].port => h = k
    /\ \A h \in OpenOutputs : outputs[h].format \in MixPorts[outputs[h].port].formats

(* A request of one session leaves the direct outputs of the others alone, *)
(* whatever it closes to make room: the MMAP output excepted, which goes   *)
(* to whoever asks last.                                                   *)
NoSessionIsCutOff ==
    [][\A s \in Sessions, h \in OpenOutputs :
          /\ outputs[h].session # s /\ outputs[h].port # "mmap_no_irq_out"
          /\ outputs'[h] # outputs[h]
          => ~(GetOutputForAttr(s) \/ GetOffloadOutput(s))]_vars

(* While the DSP belongs to a voice call or to a recording, no clip starts *)
(* on it, also for a player that was told it could before.                 *)
DspBusy ==
    \/ PlaybackRestricted /\ phoneState = "IN_CALL"
    \/ RecPlayRestricted /\ Active \cap OnPrimary # {}

Starts(h) ==
    /\ outputs'[h] # NoOutput
    /\ \/ outputs[h] = NoOutput
       \/ outputs'[h].format # outputs[h].format
       \/ \E s \in Sessions : tracks'[h][s] > tracks[h][s]

NoOffloadStartsWhileBusy ==
    [][DspBusy => \A h \in Handles :
          Starts(h) => "COMPRESS_OFFLOAD" \notin MixPorts[outputs'[h].port].flags]_vars

(* A change of the phone state leaves no DSD stream open, which would keep *)
(* the DSP from a call, although the loops that close streams skip one     *)
(* after each they close.  One port carries DSD to every sink but HDMI.    *)
PhoneStateEndsDsd ==
    [][config.voiceDsdConcDisabled /\ phoneState' # phoneState =>
          \A h \in Handles : outputs'[h] # NoOutput => outputs'[h].format # "DSD"]_vars

(* Of the suspensions of the primary output, the manager forgets none but  *)
(* those of a call it came back to from another state: each entry to       *)
(* IN_CALL suspends once more and only one restore follows, so that the    *)
(* output stays suspended after a call that was entered twice, against the *)
(* comment "restore PCM (deep-buffer) output after call termination".  One *)
(* more is pending while mvoice_call_state is set, and its restore is on   *)
(* the path of the fast fallback.                                          *)
SuspendedIsRemembered ==
    suspended > 0 =>
        /\ FallBackFlag(config) = "FAST"
        /\ suspended <= reentries + (IF callState THEN 1 ELSE 0)

(* While an input of the primary module records, the HAL knows that        *)
(* playback is restricted.                                                 *)
HalKnowsRecording == RecPlayRestricted /\ Active \cap OnPrimary # {} => recPlayConc

(* The sound trigger service is told to stop exactly while a microphone of *)
(* the primary module is in use.                                           *)
CaptureIsExact == ~config.vaConc => (capture <=> Active \cap OnPrimary # {})
=============================================================================
