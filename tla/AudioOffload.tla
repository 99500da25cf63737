---------------------------- MODULE AudioOffload ----------------------------
(***************************************************************************)
(* The decisions of the audio policy manager that depend on the build, the *)
(* properties and the mix ports of the device only: which clips the DSP    *)
(* may decode (AudioPolicyManagerCustom::isOffloadSupported), and the mix  *)
(* port a set of output flags leads to.                                    *)
(***************************************************************************)
EXTENDS Integers, FiniteSets

CONSTANT Configs   \* the builds and property settings of a run

Modes == {"NORMAL", "RINGTONE", "IN_CALL", "IN_COMMUNICATION"}

StateInCall(mode) == mode \in {"IN_CALL", "IN_COMMUNICATION"}

Streams == {"MUSIC", "VOICE_CALL", "ENFORCED_AUDIBLE", "TTS", "OTHER"}

PcmFormats == {"PCM_16_BIT", "PCM_24_BIT"}

(* ApmValues, and the flags of the primary mix port.                       *)
ConfigType ==
    [voiceConc : BOOLEAN, voicePlayConcDisabled : BOOLEAN,
     voiceRecConcDisabled : BOOLEAN, voiceVoipConcDisabled : BOOLEAN,
     fallbackPath : {"unset", "fast", "deep-buffer", "unknown"},
     voiceDsdConcDisabled : BOOLEAN, recPlayConc : BOOLEAN,
     recPlayConcDisabled : BOOLEAN, vaConc : BOOLEAN,
     offloadDisabled : BOOLEAN, multipleOffload : BOOLEAN, trackOffload : BOOLEAN,
     offloadVideo : BOOLEAN, avStreamingOffload : BOOLEAN,
     offloadMinDuration : Nat, extnFormats : BOOLEAN, afeProxy : BOOLEAN,
     compressVoip : BOOLEAN, voicePathForPcmVoip : BOOLEAN,
     primaryIsDeepBuffer : BOOLEAN]

(* audio.offload.min.duration.secs * 1000000 is a product of 32 bits.      *)
ASSUME AudioConfigAssumption ==
    /\ Configs \subseteq ConfigType
    /\ \A c \in Configs : c.offloadMinDuration < 4295

-----------------------------------------------------------------------------
(* The mix ports that carry DIRECT, and what they are opened for; each may *)
(* be open once (maxOpenCount is not set).  compress_passthrough is left   *)
(* out: only the HDMI sink, which the device does not have here, is routed *)
(* to it.                                                                  *)
Port(flags, formats) == [flags |-> flags, formats |-> formats]

Offload == {"DIRECT", "COMPRESS_OFFLOAD"}

MixPorts ==
    [mmap_no_irq_out          |-> Port({"DIRECT", "MMAP_NOIRQ"}, {"PCM_16_BIT"}),
     direct_pcm               |-> Port({"DIRECT"}, PcmFormats),
     compressed_offload       |-> Port(Offload, {"MP3", "AAC", "FLAC", "ALAC", "APE", "WMA", "WMA_PRO"}),
     dsd_compress_passthrough |-> Port(Offload, {"DSD"}),
     voip_rx                  |-> Port({"DIRECT", "VOIP_RX"}, {"PCM_16_BIT"})]

DirectPorts == DOMAIN MixPorts

Formats == UNION {MixPorts[p].formats : p \in DirectPorts}

(* getProfileForOutput, directOnly: MMAP_NOIRQ, HW_AV_SYNC and VOIP_RX are *)
(* the flags that must agree.                                              *)
DecisiveFlags == {"MMAP_NOIRQ", "HW_AV_SYNC", "VOIP_RX"}

PortsFor(format, flags) ==
    {p \in DirectPorts :
        /\ format \in MixPorts[p].formats
        /\ MixPorts[p].flags \cap DecisiveFlags = flags \cap DecisiveFlags}

-----------------------------------------------------------------------------
(* isOffloadSupported.  info is an audio_offload_info_t: the bit rate      *)
(* of a WMA clip counts as inside or outside the range of its table        *)
(* (wmaStdMinAvgByteRateTbl, wmaStdMaxAvgByteRateTbl).                     *)
MAX_BITRATE_WMA_PRO == 1536000
MAX_BITRATE_WMA_LOSSLESS == 1152000

ChannelsRefused(c, info) ==
    /\ info.channels > 2
    /\ \/ info.format \in {"AAC", "VORBIS"}
       \/ c.extnFormats /\ info.format \in {"FLAC", "AAC_ADTS"}
       \/ c.extnFormats /\ info.format \in {"ALAC", "WMA", "WMA_PRO"} /\ info.rate > 48000

WmaRefused(c, info) ==
    /\ c.extnFormats
    /\ \/ info.format = "WMA" /\ (info.channels > 2 \/ ~info.inWmaTable)
       \/ info.format = "WMA_PRO" /\ info.bitRate > MAX_BITRATE_WMA_PRO
       \/ info.format = "WMA_PRO" /\ info.bitRate > MAX_BITRATE_WMA_LOSSLESS

VideoRefused(c, info) ==
    /\ info.video
    /\ ~c.offloadVideo \/ (info.streaming /\ ~c.avStreamingOffload)

OFFLOAD_DEFAULT_MIN_DURATION_SECS == 60

(* Without the property the default is checked for some formats only.      *)
TooShort(c, info) ==
    IF c.offloadMinDuration > 0
    THEN info.duration < c.offloadMinDuration
    ELSE /\ info.duration < OFFLOAD_DEFAULT_MIN_DURATION_SECS
         /\ \/ info.format \in {"MP3", "AAC", "FLAC", "VORBIS"}
            \/ /\ c.extnFormats
               /\ info.format \in {"WMA", "WMA_PRO", "ALAC", "APE", "DSD", "AAC_ADTS"}

BusyRefused(c, inCall, recording, format) ==
    \/ c.voiceConc /\ c.voicePlayConcDisabled /\ inCall
    \/ c.voiceDsdConcDisabled /\ inCall /\ format = "DSD"
    \/ c.recPlayConc /\ c.recPlayConcDisabled /\ recording

(* inCall: isInCall(); recording: an input is active on the primary module *)
(* or being started; blocked: mono output, or an effect that can only run  *)
(* in software.                                                            *)
IsOffloadSupported(c, inCall, recording, blocked, info) ==
    /\ ~blocked
    /\ ~BusyRefused(c, inCall, recording, info.format)
    /\ info.stream = "MUSIC"
    /\ ~c.offloadDisabled
    /\ ~ChannelsRefused(c, info)
    /\ ~WmaRefused(c, info)
    /\ ~VideoRefused(c, info)
    /\ ~TooShort(c, info)
    /\ \E p \in PortsFor(info.format, {"DIRECT"}) : TRUE
=============================================================================
