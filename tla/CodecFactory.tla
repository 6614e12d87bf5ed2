---------------------------- MODULE CodecFactory ----------------------------
(***************************************************************************)
(* An application and the encoder it gets from CodecFactory                *)
(* (codec/src/framework/api/codec_factory.cc): FFmpeg's or MediaCodec's,   *)
(* by the configuration and the platform.  The application then makes the  *)
(* encoder's calls in any order, one at a time, with a sink that may       *)
(* refuse packets, while the codec's hardware runs beside it.              *)
(***************************************************************************)
EXTENDS FFmpegEncoder, MediaCodecEncoder

CONSTANT Requests   \* [force, platform, media, surface]: the configurations

Backends == {"kFFmpeg", "kAndroid"}

ASSUME RequestAssumption ==
    Requests \subseteq [force : Backends \cup {"kAuto"},
                        platform : {"android", "other"},
                        media : {"video", "audio"}, surface : BOOLEAN]

vars == <<objVars, call, last, frameVars, ctx, hwVars, config, late, discarded>>

ResolveBackend ==
    CASE request.force # "kAuto"        -> request.force
      [] request.platform = "android"   -> "kAndroid"
      [] OTHER                          -> "kFFmpeg"

(* Each platform links one backend, which registers itself. *)
Registered == {IF request.platform = "android" THEN "kAndroid" ELSE "kFFmpeg"}

Init ==
    /\ request \in Requests
    /\ NoneCreated
    /\ ctx = "none"
    /\ codec = "none" /\ input = <<>> /\ output = <<>>
    /\ config = "due" /\ late = FALSE /\ discarded = 0

(* CreateVideo, CreateAudio: an encoder of the resolved backend, if that   *)
(* is registered. *)
Create ==
    /\ backend = "none"
    /\ IF ResolveBackend \in Registered
       THEN backend' = ResolveBackend /\ Return("Create", "kOk")
       ELSE UNCHANGED backend /\ Return("Create", "kPlatformUnsupported")
    /\ UNCHANGED <<request, life, sink, frameVars, ctx, hwVars, config, late, discarded>>

(* CreateVideo(cfg, sink), CreateAudio(cfg, sink): create, Init, attach.   *)
(* An encoder whose Init fails is destroyed again. *)
CreateWithSink ==
    /\ backend = "none"
    /\ ResolveBackend \in Registered
    /\ backend' = ResolveBackend
    /\ sink' \in BOOLEAN
    /\ Return("Create", "kOk")
    /\ \/ /\ ResolveBackend = "kFFmpeg"
          /\ ctx' = "open" /\ life' = "kInitialized"
          /\ UNCHANGED hwVars
       \/ /\ ResolveBackend = "kAndroid"
          /\ codec' = "running" /\ UNCHANGED <<input, output>>
          /\ life' = (IF SurfaceMode THEN "kEncoding" ELSE "kInitialized")
          /\ UNCHANGED ctx
    /\ UNCHANGED <<request, frameVars, config, late, discarded>>

CreateWithSinkFails ==
    /\ backend = "none"
    /\ \E st \in {"kInvalidArgument", "kPlatformUnsupported", "kUnsupportedFormat",
                  "kEncodeFailed"} : Return("Create", st)
    /\ UNCHANGED <<objVars, frameVars, ctx, hwVars, config, late, discarded>>

FFmpegCall  == backend = "kFFmpeg" /\ FfCall /\ McUnchanged
FFmpegDrain == backend = "kFFmpeg" /\ FfDrain /\ McUnchanged

AndroidCall  == backend = "kAndroid" /\ (McCall \/ SurfaceDraw) /\ UNCHANGED ctx
AndroidDrain == backend = "kAndroid" /\ (McFlushInput \/ McDrain \/ DeadlinePasses) /\ UNCHANGED ctx
AndroidHw    == Hardware /\ UNCHANGED ctx
AndroidBreaks == HwFails /\ UNCHANGED ctx

Attach == SetOutputSink /\ UNCHANGED <<ctx, hwVars, config, late, discarded>>

(* The process has ended. *)
Crashed == call = "crashed" /\ UNCHANGED vars

Next ==
    \/ Create \/ CreateWithSink \/ CreateWithSinkFails
    \/ Attach
    \/ FFmpegCall \/ FFmpegDrain
    \/ AndroidCall \/ AndroidDrain \/ AndroidHw \/ AndroidBreaks
    \/ Crashed

(* A call in progress goes on, and so does the hardware. *)
Fairness ==
    /\ WF_vars(FFmpegDrain)
    /\ WF_vars(AndroidDrain)
    /\ WF_vars(AndroidHw)

Spec == Init /\ [][Next]_vars /\ Fairness
-----------------------------------------------------------------------------
(* Properties.                                                             *)

(* Every variable has its type; the frame counters never overtake each     *)
(* other, and no more buffers are in use than the codec has.               *)
TypeOK ==
    /\ request \in Requests
    /\ backend \in Backends \cup {"none"}
    /\ life \in LifeStates
    /\ sink \in BOOLEAN
    /\ call \in {"none", "Encode", "Poll", "FlushInput", "Flush", "crashed"}
    /\ last.status \in Statuses
    /\ emitted \in 0..coded /\ coded \in 0..taken
    /\ taken \in 0..MaxFrames /\ excused \in 0..taken /\ discarded \in 0..taken
    /\ ctx \in {"none", "unopened", "open", "draining"}
    /\ codec \in {"none", "running", "failed"}
    /\ config \in {"due", "taken"} /\ late \in BOOLEAN
    /\ Len(input) <= InputSlots + (IF SurfaceMode THEN 1 ELSE 0)
    /\ Len(output) <= OutputSlots

(* An encoder the lifecycle lets encode has a codec that can: no failed or *)
(* repeated Init and no Flush leaves the one without the other             *)
(* (ffmpeg_video.cc:44-47, mediacodec_video.cc:44-46).                     *)
EncodingNeedsCodec ==
    CanEncode(life) =>
        IF backend = "kFFmpeg" THEN ctx = "open" ELSE codec # "none"

(* The encoder keeps what EncoderContract promises: packets in frame       *)
(* order, none twice, and none missing but those a call returned an error  *)
(* for or, on Android, a Flush left in the codec (FlushDrains is about     *)
(* those).                                                                 *)
Larger(m, n) == IF m > n THEN m ELSE n
Contract == INSTANCE EncoderContract WITH excused <- Larger(excused, discarded)

EncoderKeepsContract == Contract!Spec

(* A Flush that returned kOk has emptied the codec into the sink: all      *)
(* frames are out, but those an error was returned for                     *)
(* (mediacodec_video.cc:219-221: "so every buffered frame is emitted").    *)
FlushedOk == last = [op |-> "Flush", status |-> "kOk"] /\ call = "none"

FlushDrains == FlushedOk => coded = taken /\ (emitted < taken => taken <= excused)

FFmpegFlushDrains == backend = "kFFmpeg" => FlushDrains

(* Fed with CPU frames that fit its buffers, the codec never ends up,      *)
(* between calls, with every input buffer waiting for an output buffer and *)
(* every output buffer waiting to be drained: Encode would find no input   *)
(* for ever after, and it is Encode that drains.  (Frames too large for a  *)
(* buffer do it: each takes an input buffer, and no drain follows.)  The   *)
(* codec has two output buffers or more: the codec-config buffer fills one *)
(* without an Encode.                                                      *)
Wedged ==
    /\ codec = "running" /\ call = "none" /\ ~SurfaceMode
    /\ Len(input) = InputSlots /\ Len(output) = OutputSlots

NeverWedged == Wedged => \E i \in DOMAIN input : input[i] = Blank

(* Every call that does not end the process returns, also a surface flush  *)
(* whose end-of-stream flag the hardware swallows.                         *)
Running == call \notin {"none", "crashed"}

CallsReturn == Running ~> ~Running
=============================================================================
