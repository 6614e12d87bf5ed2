------------------------------- MODULE Encoder -------------------------------
(***************************************************************************)
(* What the FFmpeg and MediaCodec encoders of codec/src/framework/backend  *)
(* have in common: the lifecycle, the sink of push mode, the one call in   *)
(* progress ("Not thread-safe: one instance per thread"), and the frames   *)
(* on their way through the codec.                                         *)
(*                                                                         *)
(* A call that drains the codec takes a step for every packet, because     *)
(* each goes to the sink, which may refuse it; a call that does not is one *)
(* step.  In pull mode (no sink) the packets go to the caller instead.     *)
(***************************************************************************)
EXTENDS EncoderLifecycle, Naturals

CONSTANTS
    MaxFrames,     \* bound: frames an encoder is given
    SinkMayFail    \* the sink's Push may return an error

ASSUME EncoderAssumption == MaxFrames \in Nat /\ SinkMayFail \in BOOLEAN

VARIABLES
    request,    \* what the application asks the factory for
    backend,    \* the backend of the encoder created, or "none"
    life,       \* lifecycle_
    sink,       \* sink_ is set
    call,       \* the call that drains the codec, "none", or "crashed" once
                \*   a call has ended the process
    last,       \* the last call to return and its Status
    taken,      \* history: the last frame the codec took
    coded,      \* history: the last frame that left the codec
    emitted,    \* history: the last frame whose packet was handed over
    excused     \* history: frames up to this one may be missing, because a
                \*          call reported an error

objVars == <<request, backend, life, sink>>
frameVars == <<taken, coded, emitted, excused>>

Statuses == {"none", "kOk", "kInvalidArgument", "kNotInitialized",
             "kPlatformUnsupported", "kUnsupportedFormat",
             "kUnsupportedOperation", "kEncodeFailed"}

Idle == call = "none" /\ backend # "none"

Return(op, st) == call' = "none" /\ last' = [op |-> op, status |-> st]

(* Result of a call that changes nothing but what it returns. *)
Refuse(op, st) == Return(op, st) /\ UNCHANGED <<objVars, frameVars>>

(* Init installs a new codec, or none: what the old one held is gone. *)
CodecReplaced ==
    /\ coded' = taken
    /\ UNCHANGED <<taken, emitted, excused>>

(* Drain, one packet: push mode gives it to the sink and nobody else; in   *)
(* pull mode it becomes the call's result, in place of the one before it,  *)
(* which the caller never sees though the history counts it ("pull mode    *)
(* returns the last one"): what is said of emitted is about push mode.     *)
HandOver(n) ==
    /\ coded' = n
    /\ emitted' = n
    /\ UNCHANGED <<call, last, taken, excused>>

(* Plausible bug: the sink's error is not looked at. *)
RefusalIgnored(n) ==
    /\ sink /\ SinkMayFail
    /\ coded' = n
    /\ UNCHANGED <<taken, emitted, excused>>

(* The sink refuses the packet: the drain ends, and a Flush leaves what is *)
(* still in the codec to whoever calls next.                               *)
RefusedFrame(n) ==
    /\ sink /\ SinkMayFail
    /\ coded' = n
    /\ excused' = (IF call = "Flush" THEN taken ELSE n)
    /\ UNCHANGED <<taken, emitted>>

SetOutputSink ==
    /\ Idle
    /\ sink' \in BOOLEAN
    /\ Return("SetOutputSink", "kOk")
    /\ UNCHANGED <<request, backend, life, frameVars>>

NoneCreated ==
    /\ backend = "none" /\ life = "kCreated" /\ sink = FALSE
    /\ call = "none" /\ last = [op |-> "none", status |-> "none"]
    /\ taken = 0 /\ coded = 0 /\ emitted = 0 /\ excused = 0
=============================================================================
