----------------------------- MODULE AudioFlags -----------------------------
(***************************************************************************)
(* The flags under which getOutputForDevices looks for an output: the      *)
(* stages between the flags a client asks for and the search for a direct  *)
(* profile.  Each stage is an operator on the flags so far.                *)
(*                                                                         *)
(* c    the configuration          req  the request (Requests, AudioPolicy)*)
(* now  what the manager and the audio HAL know at this moment:            *)
(*      mode, prevMode, callState (mvoice_call_state), recording,          *)
(*      voipFree, directPcm (a direct PCM output is open), vr (HAL: VR     *)
(*      audio mode), proxy (a WFD proxy device is connected), telephonyTx  *)
(***************************************************************************)
EXTENDS AudioOffload

IsPcm(req) == req.format \in PcmFormats

(* The VoIP output is for 16 bit mono voice calls; otherwise they go to    *)
(* the primary output.  Without COMPRESS_VOIP_ENABLED the flags stay.      *)
VoipFlags(c, now, req, flags) ==
    IF req.stream # "VOICE_CALL" \/ ~IsPcm(req) THEN flags
    ELSE IF c.compressVoip
    THEN IF /\ req.monoVoipRate /\ now.voipFree
            /\ c.voicePathForPcmVoip /\ req.format = "PCM_16_BIT"
         THEN {"VOIP_RX", "DIRECT"}
         ELSE {"FAST", "PRIMARY"}
    ELSE IF req.monoVoipRate /\ now.voipFree THEN {"VOIP_RX", "DIRECT"} ELSE flags

VrFlags(now, flags) == IF now.vr THEN flags \ {"FAST", "RAW"} ELSE flags

(* getFallBackPath, which the constructor calls.                           *)
FallBackFlag(c) ==
    CASE ~c.voiceConc -> "NONE"
      [] c.voiceConc /\ c.fallbackPath = "deep-buffer" -> "DEEP_BUFFER"
      [] OTHER -> "FAST"

(* "check if voice call is active / running in background"                 *)
CallRunning(now) ==
    /\ now.callState
    /\ \/ now.mode = "IN_CALL"
       \/ now.prevMode = "IN_CALL" /\ now.mode = "IN_COMMUNICATION"

(* A VoIP stream gets no output at all while a voice call runs.            *)
VoipRefused(c, now, flags) ==
    /\ c.voiceConc /\ c.voiceVoipConcDisabled
    /\ CallRunning(now)
    /\ "VOIP_RX" \in flags

Dsp == {"COMPRESS_OFFLOAD", "DIRECT_PCM"}

CallFlags(c, now, req, flags) ==
    IF ~(c.voiceConc /\ c.voicePlayConcDisabled /\ CallRunning(now)) \/ "VOIP_RX" \in flags
    THEN flags
    ELSE IF FallBackFlag(c) = "FAST" /\ flags \cap (Dsp \cup {"DEEP_BUFFER"}) # {} THEN {"FAST"}
    ELSE IF FallBackFlag(c) = "DEEP_BUFFER" /\ flags \cap Dsp # {}
    THEN {IF req.stream = "MUSIC" THEN "DEEP_BUFFER" ELSE "FAST"}
    ELSE flags

RecordFlags(c, now, req, flags) ==
    IF ~(c.recPlayConc /\ c.recPlayConcDisabled) THEN flags
    ELSE IF req.stream = "ENFORCED_AUDIBLE" THEN {"FAST"}
    ELSE IF /\ now.recording /\ "FAST" \notin flags
            /\ ~(now.mode = "IN_COMMUNICATION" /\ "VOIP_RX" \in flags)
    THEN {"DEEP_BUFFER"}
    ELSE flags

(* "use OUTPUT_FLAG_FAST for non music stream"                             *)
ProxyFlags(c, now, req, flags) ==
    IF c.afeProxy /\ now.proxy /\ req.stream # "MUSIC"
    THEN IF "DIRECT" \in flags THEN {"DIRECT"} ELSE {"FAST"}
    ELSE flags

ImpliedDirect(flags) ==
    IF flags \cap {"COMPRESS_OFFLOAD", "HW_AV_SYNC"} # {} THEN flags \cup {"DIRECT"} ELSE flags

(* "Do internal direct magic here".  The usage is known if the client set  *)
(* it, or if getOutputForAttr copied it from the attributes.               *)
MagicFlags(c, req, flags) ==
    LET usageKnown == req.flags = {"DIRECT"} \/ (req.flags = {} /\ c.trackOffload)
    IN  CASE flags = {} /\ req.stream = "MUSIC" /\ ~c.offloadDisabled /\ req.media /\ usageKnown
               -> {"DIRECT"}
          [] flags = {"DIRECT"} /\ (c.offloadDisabled \/ req.stream # "MUSIC") -> {}
          [] OTHER -> flags

(* A direct PCM output that is open is for music; deep buffer is, too.     *)
MusicOnlyFlags(now, req, flags) ==
    IF req.stream = "MUSIC" THEN flags
    ELSE (IF "DIRECT" \in flags /\ now.directPcm THEN {} ELSE flags) \ {"DEEP_BUFFER"}

DedicatedFlags(now, req, flags) ==
    IF req.stream = "TTS" THEN {"TTS"}
    ELSE IF now.telephonyTx /\ req.stream = "MUSIC" /\ IsPcm(req) /\ StateInCall(now.mode)
    THEN {"INCALL_MUSIC"}
    ELSE flags

VoiceFlags(c, now, req) == VrFlags(now, VoipFlags(c, now, req, req.flags))

(* The request ends here without an output.                                *)
Refused(c, now, req) ==
    \/ "COMPRESS_OFFLOAD" \in req.flags /\ req.stream # "MUSIC"
    \/ VoipRefused(c, now, VoiceFlags(c, now, req))

FinalFlags(c, now, req) ==
    LET called   == CallFlags(c, now, req, VoiceFlags(c, now, req))
        recorded == RecordFlags(c, now, req, called)
        direct   == ImpliedDirect(ProxyFlags(c, now, req, recorded))
    IN  DedicatedFlags(now, req, MusicOnlyFlags(now, req, MagicFlags(c, req, direct)))
=============================================================================
