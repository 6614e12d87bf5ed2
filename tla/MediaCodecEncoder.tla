-------------------------- MODULE MediaCodecEncoder --------------------------
(***************************************************************************)
(* MediaCodecVideoEncoder and MediaCodecAudioEncoder of                    *)
(* codec/src/framework/backend/android, with the codec they drive.         *)
(*                                                                         *)
(* AMediaCodec is external: hardware that turns input buffers into output  *)
(* buffers at its own pace, between and during the encoder's calls, and    *)
(* stalls when no output buffer is free.  Surface mode (video only) feeds  *)
(* it from a window the application draws in.  Buffers are sequences; a    *)
(* buffer is the number of the frame it holds, or one of the marks below.  *)
(*                                                                         *)
(* Output buffers are taken to be well formed (the drain skips others),    *)
(* and the codec's notices of a new format carry nothing and are left out. *)
(***************************************************************************)
EXTENDS Encoder, Integers, Sequences

CONSTANTS
    InputSlots,     \* input buffers of the codec
    OutputSlots     \* output buffers of the codec

ASSUME SlotAssumption == InputSlots \in Nat \ {0} /\ OutputSlots \in Nat \ {0}

Blank == 0          \* an input buffer queued empty, or the codec-config output
EndOfStream == -1   \* the end-of-stream flag

VARIABLES
    codec,     \* codec_: "none", "running", or "failed" when every call fails
    input,     \* input buffers queued, oldest first
    output,    \* output buffers ready, oldest first
    config,    \* the codec-config buffer this codec owes: "due" or "taken"
    late,      \* the deadline of the surface flush has passed
    discarded  \* history: frames up to this one a Flush may have left behind
               \*   though it returned kOk

hwVars == <<codec, input, output>>

SurfaceMode == request.media = "video" /\ request.surface

NoCodec == codec' = "none" /\ input' = <<>> /\ output' = <<>> /\ config' = "due"

-----------------------------------------------------------------------------
(* The codec.                                                              *)

HwRuns == codec = "running" /\ UNCHANGED <<objVars, call, last, frameVars, late, discarded>>

(* The codec-config buffer precedes the first frame. *)
HwEmitsConfig ==
    /\ HwRuns
    /\ config = "due" /\ input # <<>> /\ ~\E i \in DOMAIN output : output[i] = Blank
    /\ Len(output) < OutputSlots
    /\ output' = Append(output, Blank)
    /\ UNCHANGED <<codec, input, config>>

HwConfigured == config = "taken" \/ \E i \in DOMAIN output : output[i] = Blank

HwEncodes ==
    /\ HwRuns
    /\ input # <<>> /\ Head(input) > 0 /\ HwConfigured
    /\ Len(output) < OutputSlots
    /\ output' = Append(output, Head(input))
    /\ input' = Tail(input)
    /\ UNCHANGED <<codec, config>>

HwSkipsBlank ==
    /\ HwRuns
    /\ input # <<>> /\ Head(input) = Blank
    /\ input' = Tail(input)
    /\ UNCHANGED <<codec, output, config>>

(* After signalEndOfInputStream the flag may never come out (research R3). *)
HwEndsStream ==
    /\ HwRuns
    /\ input # <<>> /\ Head(input) = EndOfStream
    /\ input' = Tail(input)
    /\ \/ Len(output) < OutputSlots /\ output' = Append(output, EndOfStream)
       \/ SurfaceMode /\ UNCHANGED output
    /\ UNCHANGED <<codec, config>>

HwFails ==
    /\ HwRuns
    /\ codec' = "failed"
    /\ UNCHANGED <<input, output, config>>

(* The application draws a frame, also while Poll drains; a full input     *)
(* holds it back.  What it draws after the signal of a Flush is not taken. *)
SurfaceDraw ==
    /\ call \in {"none", "Poll"} /\ SurfaceMode /\ life = "kEncoding"
    /\ codec = "running" /\ Len(input) < InputSlots /\ taken < MaxFrames
    /\ taken' = taken + 1
    /\ input' = Append(input, taken + 1)
    /\ UNCHANGED <<objVars, call, last, coded, emitted, excused,
                   codec, output, config, late, discarded>>

Hardware == HwEmitsConfig \/ HwEncodes \/ HwSkipsBlank \/ HwEndsStream

-----------------------------------------------------------------------------
(* Calls.                                                                  *)

McUnchanged == UNCHANGED <<hwVars, config, late, discarded>>

McInitRejected ==
    /\ Idle /\ ~CanInit(life)
    /\ Refuse("Init", "kInvalidArgument")
    /\ McUnchanged

(* Before createEncoderByType returns a codec nothing is torn down, though *)
(* codec_ is already null when it returns none; after it, every failure    *)
(* goes through Release. *)
McInitFails ==
    /\ Idle /\ CanInit(life)
    /\ \/ /\ \E st \in {"kInvalidArgument", "kUnsupportedFormat"} : Refuse("Init", st)
          /\ McUnchanged
       \/ /\ Return("Init", "kPlatformUnsupported")
          /\ NoCodec /\ CodecReplaced
          /\ UNCHANGED <<objVars, late, discarded>>
       \/ /\ \E st \in {"kUnsupportedFormat", "kPlatformUnsupported", "kEncodeFailed"} :
                 Return("Init", st)
          /\ life' = "kReleased" /\ sink' = FALSE
          /\ NoCodec /\ CodecReplaced
          /\ UNCHANGED <<request, backend, late, discarded>>

(* Surface input is encoding from the start. *)
McInit ==
    /\ Idle /\ CanInit(life)
    /\ codec' = "running" /\ input' = <<>> /\ output' = <<>> /\ config' = "due"
    /\ CodecReplaced
    /\ life' = (IF SurfaceMode THEN "kEncoding" ELSE "kInitialized")
    /\ Return("Init", "kOk")
    /\ UNCHANGED <<request, backend, sink, late, discarded>>

McEncodeRejected ==
    /\ Idle
    /\ \/ SurfaceMode /\ Refuse("Encode", "kUnsupportedOperation")
       \/ ~SurfaceMode /\ ~CanEncode(life) /\ Refuse("Encode", "kNotInitialized")
    /\ McUnchanged

(* QueueInput fails: on the frame's size, for want of an input buffer, or  *)
(* on a buffer too small for it, which is queued empty.  No drain follows. *)
McEncodeFails ==
    /\ Idle /\ ~SurfaceMode /\ CanEncode(life)
    /\ life' = "kEncoding"
    /\ Return("Encode", "kEncodeFailed")
    /\ \/ UNCHANGED input    \* the frame, a full input, or a failed codec
       \/ codec = "running" /\ Len(input) < InputSlots /\ input' = Append(input, Blank)
    /\ UNCHANGED <<request, backend, sink, frameVars, codec, output, config, late, discarded>>

(* Plausible bug: Encode leaves the output to a later call. *)
McEncodeUndrained ==
    /\ Idle /\ ~SurfaceMode /\ CanEncode(life)
    /\ codec = "running" /\ Len(input) < InputSlots /\ taken < MaxFrames
    /\ life' = "kEncoding"
    /\ taken' = taken + 1
    /\ input' = Append(input, taken + 1)
    /\ Return("Encode", "kOk")
    /\ UNCHANGED <<request, backend, sink, coded, emitted, excused,
                   codec, output, config, late, discarded>>

McEncode ==
    /\ Idle /\ ~SurfaceMode /\ CanEncode(life)
    /\ codec = "running" /\ Len(input) < InputSlots /\ taken < MaxFrames
    /\ life' = "kEncoding"
    /\ taken' = taken + 1
    /\ input' = Append(input, taken + 1)
    /\ call' = "Encode"
    /\ UNCHANGED <<request, backend, sink, last, coded, emitted, excused,
                   codec, output, config, late, discarded>>

(* Poll pumps the output while the application draws. *)
McPollRejected ==
    /\ Idle
    /\ \/ ~SurfaceMode /\ Refuse("Poll", "kOk")
       \/ SurfaceMode /\ ~CanEncode(life) /\ Refuse("Poll", "kNotInitialized")
    /\ McUnchanged

McPoll ==
    /\ Idle /\ SurfaceMode /\ CanEncode(life)
    /\ life' = "kEncoding"
    /\ call' = "Poll"
    /\ UNCHANGED <<request, backend, sink, last, frameVars>> /\ McUnchanged

McFlushRejected ==
    /\ Idle /\ ~CanFlush(life)
    /\ Refuse("Flush", "kNotInitialized")
    /\ McUnchanged

(* signalEndOfInputStream needs no input buffer, and adds nothing to a     *)
(* signal still on its way. *)
WithEndOfStream ==
    IF codec = "running" /\ ~\E i \in DOMAIN input : input[i] = EndOfStream
    THEN Append(input, EndOfStream) ELSE input

(* Surface: the signal.  CPU frames: an input buffer with the flag, if one *)
(* comes free in four tries.                                               *)
McFlush ==
    /\ Idle /\ CanFlush(life) /\ codec # "none"
    /\ life' = "kFlushed"
    /\ IF SurfaceMode
       THEN call' = "Flush" /\ input' = WithEndOfStream
       ELSE call' = "FlushInput" /\ UNCHANGED input
    /\ UNCHANGED <<request, backend, sink, last, frameVars,
                   codec, output, config, late, discarded>>

(* After a new Init that found no codec the state is still kFlushed, in    *)
(* which Flush is legal; it hands codec_, which is null, to AMediaCodec.   *)
McFlushNoCodec ==
    /\ Idle /\ CanFlush(life) /\ codec = "none"
    /\ life' = "kFlushed"
    /\ call' = "crashed"
    /\ UNCHANGED <<request, backend, sink, last, frameVars, hwVars,
                   config, late, discarded>>

(* Plausible bug: the flag is queued whether or not a buffer is free. *)
McFlushInputBlind ==
    /\ call = "FlushInput"
    /\ call' = "Flush"
    /\ input' = Append(input, EndOfStream)
    /\ UNCHANGED <<objVars, last, frameVars, codec, output, config, late, discarded>>

McFlushInput ==
    /\ call = "FlushInput"
    /\ call' = "Flush"
    /\ \/ codec = "running" /\ Len(input) < InputSlots /\ input' = Append(input, EndOfStream)
       \/ (codec = "failed" \/ Len(input) = InputSlots) /\ UNCHANGED input
    /\ UNCHANGED <<objVars, last, frameVars, codec, output, config, late, discarded>>

-----------------------------------------------------------------------------
(* Drain.                                                                  *)

McDraining == call \in {"Encode", "Poll", "Flush"} /\ UNCHANGED objVars

(* How a call ends after its drain, which got as far as frame "gone".  A   *)
(* Flush of CPU frames then resets the codec for reuse with                *)
(* AMediaCodec_flush, which drops every buffer.                            *)
McReturn(st, gone) ==
    /\ Return(call, st)
    /\ late' = FALSE
    /\ discarded' = (IF call = "Flush" /\ st = "kOk" /\ gone < taken THEN taken ELSE discarded)
    /\ IF call = "Flush" /\ ~SurfaceMode
       THEN input' = <<>> /\ output' = <<>> /\ coded' = taken
       ELSE coded' = gone

McDrainPacket ==
    /\ McDraining
    /\ codec = "running" /\ output # <<>> /\ Head(output) > 0
    /\ output' = Tail(output)
    /\ HandOver(Head(output))
    /\ UNCHANGED <<codec, input, config, late, discarded>>

(* The sink refuses: the buffer is released, what follows it stays. *)
McDrainRefused ==
    /\ McDraining
    /\ codec = "running" /\ output # <<>> /\ Head(output) > 0
    /\ sink /\ SinkMayFail
    /\ excused' = (IF call = "Flush" THEN taken ELSE Head(output))
    /\ McReturn("kEncodeFailed", Head(output))
    /\ (call # "Flush" \/ SurfaceMode) => (output' = Tail(output) /\ UNCHANGED input)
    /\ UNCHANGED <<codec, config, taken, emitted>>

(* asc_, or sps_ and pps_: kept by the encoder over every Init. *)
McDrainConfig ==
    /\ McDraining
    /\ codec = "running" /\ output # <<>> /\ Head(output) = Blank
    /\ output' = Tail(output)
    /\ config' = "taken"
    /\ UNCHANGED <<call, last, frameVars, codec, input, late, discarded>>

(* The flag ends the drain of a Flush, the only call it can reach. *)
McDrainEos ==
    /\ McDraining /\ call = "Flush"
    /\ codec = "running" /\ output # <<>> /\ Head(output) = EndOfStream
    /\ McReturn("kOk", coded)
    /\ SurfaceMode => (output' = Tail(output) /\ UNCHANGED input)
    /\ UNCHANGED <<codec, taken, emitted, excused, config>>

(* Plausible bug: the flag is waited for, however long it takes. *)
McDrainWaitsForFlag ==
    /\ McDraining
    /\ codec = "running" /\ output = <<>>
    /\ ~(call = "Flush" /\ SurfaceMode)
    /\ McReturn("kOk", coded)
    /\ call # "Flush" => UNCHANGED <<input, output>>
    /\ UNCHANGED <<codec, taken, emitted, excused, config>>

(* Nothing ready in time (TRY_AGAIN_LATER).  Only the surface flush, which *)
(* has a deadline, goes on waiting; every other drain ends here.           *)
McDrainEmpty ==
    /\ McDraining
    /\ codec = "running" /\ output = <<>>
    /\ (call = "Flush" /\ SurfaceMode) => late
    /\ McReturn("kOk", coded)
    /\ (call # "Flush" \/ SurfaceMode) => UNCHANGED <<input, output>>
    /\ UNCHANGED <<codec, taken, emitted, excused, config>>

DeadlinePasses ==
    /\ call = "Flush" /\ SurfaceMode /\ ~late
    /\ late' = TRUE
    /\ UNCHANGED <<objVars, call, last, frameVars, hwVars, config, discarded>>

McDrainFails ==
    /\ McDraining
    /\ codec = "failed"
    /\ excused' = (IF call = "Flush" THEN taken ELSE coded)
    /\ McReturn("kEncodeFailed", coded)
    /\ (call # "Flush" \/ SurfaceMode) => UNCHANGED <<input, output>>
    /\ UNCHANGED <<codec, taken, emitted, config>>

McRelease ==
    /\ Idle
    /\ life' = "kReleased" /\ sink' = FALSE
    /\ NoCodec
    /\ Return("Release", "kOk")
    /\ UNCHANGED <<request, backend, frameVars, late, discarded>>

McDrain ==
    \/ McDrainPacket \/ McDrainRefused \/ McDrainConfig
    \/ McDrainEos \/ McDrainEmpty \/ McDrainFails

McCall ==
    \/ McInitRejected \/ McInitFails \/ McInit
    \/ McEncodeRejected \/ McEncodeFails \/ McEncode
    \/ McPollRejected \/ McPoll
    \/ McFlushRejected \/ McFlush \/ McFlushNoCodec
    \/ McRelease
=============================================================================
