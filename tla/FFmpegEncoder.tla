---------------------------- MODULE FFmpegEncoder ----------------------------
(***************************************************************************)
(* FFmpegVideoEncoder and FFmpegAudioEncoder of codec/src/framework/       *)
(* backend/ffmpeg.  They differ in what makes a frame unfit (its size; no  *)
(* samples) and in the video's bitstream filter, which passes packets one  *)
(* to one; the rest is the same code.                                      *)
(*                                                                         *)
(* libavcodec is external.  It keeps frames back as it likes, gives their  *)
(* packets in order, reports the end of the stream only when it holds      *)
(* none, may fail at any call, and refuses everything until it is opened.  *)
(***************************************************************************)
EXTENDS Encoder

VARIABLE ctx   \* ctx_: "none", "unopened", "open", or "draining" once it
               \*       was sent the null frame

FfInitRejected ==
    /\ Idle /\ ~CanInit(life)
    /\ Refuse("Init", "kInvalidArgument")
    /\ UNCHANGED ctx

(* Init fails: on the configuration or for want of a codec, before ctx_ is *)
(* touched, for want of memory for a new ctx_, or on that, before or after *)
(* it is opened.  The lifecycle is not.                                    *)
FfInitFails ==
    /\ Idle /\ CanInit(life)
    /\ \/ /\ \E st \in {"kInvalidArgument", "kPlatformUnsupported"} : Return("Init", st)
          /\ UNCHANGED <<ctx, frameVars>>
       \/ /\ Return("Init", "kEncodeFailed")
          /\ ctx' \in {"none", "unopened", "open"}
          /\ CodecReplaced
       \/ /\ Return("Init", "kUnsupportedFormat")
          /\ ctx' = "unopened"
          /\ CodecReplaced
    /\ UNCHANGED objVars

FfInit ==
    /\ Idle /\ CanInit(life)
    /\ ctx' = "open"
    /\ life' = "kInitialized"
    /\ CodecReplaced
    /\ Return("Init", "kOk")
    /\ UNCHANGED <<request, backend, sink>>

FfEncodeRejected ==
    /\ Idle /\ ~CanEncode(life)
    /\ Refuse("Encode", "kNotInitialized")
    /\ UNCHANGED ctx

(* The lifecycle moves before the frame is looked at. *)
FfEncodeUnfit ==
    /\ Idle /\ CanEncode(life)
    /\ life' = "kEncoding"
    /\ \/ Return("Encode", "kInvalidArgument")   \* wrong size, or no samples
       \/ Return("Encode", "kEncodeFailed")      \* avcodec_send_frame fails
    /\ UNCHANGED <<request, backend, sink, frameVars, ctx>>

FfEncode ==
    /\ Idle /\ CanEncode(life)
    /\ ctx = "open" /\ taken < MaxFrames
    /\ life' = "kEncoding"
    /\ taken' = taken + 1
    /\ call' = "Encode"
    /\ UNCHANGED <<request, backend, sink, last, coded, emitted, excused, ctx>>

FfFlushRejected ==
    /\ Idle /\ ~CanFlush(life)
    /\ Refuse("Flush", "kNotInitialized")
    /\ UNCHANGED ctx

(* The null frame is sent; what libavcodec answers is not looked at. *)
FfFlush ==
    /\ Idle /\ CanFlush(life) /\ ctx # "none"
    /\ life' = "kFlushed"
    /\ ctx' = (IF ctx = "open" THEN "draining" ELSE ctx)
    /\ call' = "Flush"
    /\ UNCHANGED <<request, backend, sink, last, frameVars>>

(* After a new Init that found no memory for ctx_ the state is still       *)
(* kFlushed, in which Flush is legal; it hands the null ctx_ to            *)
(* libavcodec.                                                             *)
FfFlushNoCodec ==
    /\ Idle /\ CanFlush(life) /\ ctx = "none"
    /\ life' = "kFlushed"
    /\ call' = "crashed"
    /\ UNCHANGED <<request, backend, sink, last, frameVars, ctx>>

-----------------------------------------------------------------------------
(* Drain.                                                                  *)

FfDraining == call \in {"Encode", "Flush"} /\ UNCHANGED <<objVars, ctx>>

FfDrainPacket ==
    /\ FfDraining
    /\ ctx \in {"open", "draining"} /\ coded < taken
    /\ HandOver(coded + 1)

FfDrainRefused ==
    /\ FfDraining
    /\ ctx \in {"open", "draining"} /\ coded < taken
    /\ RefusedFrame(coded + 1)
    /\ Return(call, "kEncodeFailed")

(* avcodec_receive_packet or the bitstream filter fails; the filter has    *)
(* the packet by then. *)
FfDrainFails ==
    /\ FfDraining
    /\ \/ UNCHANGED coded
       \/ coded < taken /\ coded' = coded + 1
    /\ excused' = (IF call = "Flush" THEN taken ELSE coded')
    /\ Return(call, "kEncodeFailed")
    /\ UNCHANGED <<taken, emitted>>

(* Plausible bug: the drain stops after a packet at end of stream too. *)
FfDrainEndsEarly ==
    /\ FfDraining
    /\ ctx \in {"open", "draining"}
    /\ Return(call, "kOk")
    /\ UNCHANGED frameVars

(* AVERROR(EAGAIN) while frames are sent, AVERROR_EOF after the last. *)
FfDrainEnds ==
    /\ FfDraining
    /\ \/ ctx = "open"
       \/ ctx = "draining" /\ coded = taken
    /\ Return(call, "kOk")
    /\ UNCHANGED frameVars

FfRelease ==
    /\ Idle
    /\ life' = "kReleased"
    /\ sink' = FALSE
    /\ ctx' = "none"
    /\ Return("Release", "kOk")
    /\ UNCHANGED <<request, backend, frameVars>>

FfDrain == FfDrainPacket \/ FfDrainRefused \/ FfDrainFails \/ FfDrainEnds

FfCall ==
    \/ FfInitRejected \/ FfInitFails \/ FfInit
    \/ FfEncodeRejected \/ FfEncodeUnfit \/ FfEncode
    \/ FfFlushRejected \/ FfFlush \/ FfFlushNoCodec
    \/ FfRelease
=============================================================================
