--------------------------- MODULE MCAudioPolicy ---------------------------
(***************************************************************************)
(* Small instances for model checking AudioPolicy.                         *)
(***************************************************************************)
EXTENDS AudioPolicy, TLC

(* The build of this device (BoardConfig.mk, system.prop), and builds with *)
(* the concurrency features it leaves out.                                 *)
Device ==
    [voiceConc |-> FALSE, voicePlayConcDisabled |-> FALSE,
     voiceRecConcDisabled |-> FALSE, voiceVoipConcDisabled |-> FALSE,
     fallbackPath |-> "unset",
     voiceDsdConcDisabled |-> TRUE, recPlayConc |-> FALSE,
     recPlayConcDisabled |-> FALSE, vaConc |-> FALSE,
     offloadDisabled |-> FALSE, multipleOffload |-> FALSE, trackOffload |-> TRUE,
     offloadVideo |-> TRUE, avStreamingOffload |-> FALSE,
     offloadMinDuration |-> 30, extnFormats |-> TRUE, afeProxy |-> TRUE,
     compressVoip |-> TRUE, voicePathForPcmVoip |-> TRUE,
     primaryIsDeepBuffer |-> FALSE]

FastFallback ==
    [Device EXCEPT !.voiceConc = TRUE, !.voicePlayConcDisabled = TRUE,
                   !.voiceRecConcDisabled = TRUE, !.primaryIsDeepBuffer = TRUE]

DeepFallback ==
    [Device EXCEPT !.voiceConc = TRUE, !.voicePlayConcDisabled = TRUE,
                   !.voiceVoipConcDisabled = TRUE, !.fallbackPath = "deep-buffer",
                   !.compressVoip = FALSE, !.multipleOffload = TRUE, !.offloadMinDuration = 0]

RecordFirst ==
    [Device EXCEPT !.recPlayConc = TRUE, !.recPlayConcDisabled = TRUE, !.compressVoip = FALSE]

VoiceAssistant == [Device EXCEPT !.vaConc = TRUE]

MCConfigs == {Device, FastFallback, DeepFallback, RecordFirst, VoiceAssistant}

Request(stream, format, flags) ==
    [stream |-> stream, format |-> format, flags |-> flags, media |-> stream = "MUSIC",
     monoVoipRate |-> stream = "VOICE_CALL"]

Music == Request("MUSIC", "PCM_16_BIT", {})
HiRes == Request("MUSIC", "PCM_24_BIT", {"DIRECT"})
Voip  == Request("VOICE_CALL", "PCM_16_BIT", {})
Mmap  == Request("MUSIC", "PCM_16_BIT", {"DIRECT", "MMAP_NOIRQ"})
Beep  == Request("OTHER", "PCM_16_BIT", {"DIRECT"})

Clip(format, duration) ==
    [stream |-> "MUSIC", format |-> format, channels |-> 2, rate |-> 48000, bitRate |-> 128000,
     inWmaTable |-> TRUE, video |-> FALSE, streaming |-> FALSE, duration |-> duration]

Song == Clip("MP3", 200)
Dsd  == Clip("DSD", 45)

Calm == [vr |-> FALSE, proxy |-> FALSE, telephonyTx |-> FALSE, rateMatches |-> TRUE, moved |-> FALSE]
Other == [vr |-> TRUE, proxy |-> TRUE, telephonyTx |-> FALSE, rateMatches |-> FALSE, moved |-> TRUE]
Tx == [Calm EXCEPT !.telephonyTx = TRUE]

MCRecClients == {"mic", "usb", "voip"}
MCSource == [r \in MCRecClients |-> IF r = "voip" THEN "VOICE_COMMUNICATION" ELSE "MIC"]
MCOnPrimary == {"mic", "voip"}

Load(requests, clips, surroundings, recClients, soft) ==
    [requests |-> requests, clips |-> clips, surroundings |-> surroundings,
     recClients |-> recClients, soft |-> soft]

MCWorkload ==
    [c \in MCConfigs |->
        CASE c = Device -> Load({Music, HiRes, Voip, Mmap}, {Song, Dsd}, {Calm, Other}, {}, FALSE)
          [] c = FastFallback -> Load({Voip}, {Song, Dsd}, {Calm}, {"mic"}, FALSE)
          [] c = DeepFallback -> Load({Music, Voip, Beep}, {Song}, {Calm, Other, Tx}, {"voip"}, TRUE)
          [] c = RecordFirst -> Load({Music, Voip}, {Song}, {Calm}, {"mic", "voip"}, FALSE)
          [] c = VoiceAssistant -> Load({Music}, {}, {Calm}, MCRecClients, FALSE)]

(* The hypotheses of the theorems hold of these clients.                   *)
ASSUME UsualClients == OffloadIsAskedFirst /\ RequestsAsUsual

MCHandles == 1 .. 2
SessionSymmetry == Permutations(Sessions)
=============================================================================
