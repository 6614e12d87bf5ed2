------------------------ MODULE CodecFactory_proofs ------------------------
(***************************************************************************)
(* Proofs about CodecFactory: for any number of frames and buffers, either *)
(* backend and any configuration.                                          *)
(*                                                                         *)
(* The codec's two queues are described by the frames they hold, without   *)
(* the marks between them: the output's go on where the last frame that    *)
(* left the codec was, the input's where the output's end.                 *)
(***************************************************************************)
EXTENDS CodecFactory, SequenceTheorems, FiniteSetTheorems, TLAPS

-----------------------------------------------------------------------------
(* Buffers. *)

(* A queue of buffers that holds the frames after lo up to hi, in order,   *)
(* and any marks between them. *)
Holds(s, lo, hi) ==
    /\ \A p \in Nat : p > 0 => ((\E i \in 1..Len(s) : s[i] = p) <=> (lo < p /\ p <= hi))
    /\ \A i, j \in 1..Len(s) : i < j /\ s[i] > 0 /\ s[j] > 0 => s[i] < s[j]

LEMMA EmptyHolds == ASSUME NEW n \in Nat  PROVE Holds(<<>>, n, n)
  BY EmptySeq DEF Holds

LEMMA HoldsAppendFrame ==
  ASSUME NEW s \in Seq(Int), NEW lo \in Nat, NEW hi \in Nat, lo <= hi, Holds(s, lo, hi)
  PROVE  Holds(Append(s, hi + 1), lo, hi + 1)
  <1> DEFINE x == hi + 1
             t == Append(s, x)
             n == Len(s)
  <1>1. /\ n \in Nat /\ Len(t) = n + 1
        /\ \A i \in 1..n : t[i] = s[i] /\ s[i] \in Int
        /\ t[n + 1] = x
    BY AppendProperties, LenProperties, ElementOfSeq
  <1> HIDE DEF t, n
  <1>2. ASSUME NEW p \in Nat, p > 0
        PROVE  (\E i \in 1..(n + 1) : t[i] = p) <=> (lo < p /\ p <= x)
    <2>1. (\E i \in 1..(n + 1) : t[i] = p) <=> (\E i \in 1..n : s[i] = p) \/ x = p
      BY <1>1
    <2>2. (\E i \in 1..n : s[i] = p) <=> (lo < p /\ p <= hi)
      BY <1>2 DEF Holds, n
    <2> QED BY <2>1, <2>2
  <1>3. ASSUME NEW i \in 1..(n + 1), NEW j \in 1..(n + 1), i < j, t[i] > 0, t[j] > 0
        PROVE  t[i] < t[j]
    <2>1. i \in 1..n /\ t[i] = s[i]
      BY <1>1, <1>3
    <2>2. CASE j \in 1..n
      BY <1>1, <1>3, <2>1, <2>2 DEF Holds, n
    <2>3. CASE j = n + 1
      <3>1. s[i] \in Nat /\ s[i] > 0
        BY <1>1, <1>3, <2>1
      <3>2. s[i] <= hi
        BY <2>1, <3>1 DEF Holds, n
      <3> QED BY <1>1, <2>1, <2>3, <3>1, <3>2
    <2> QED BY <1>1, <2>2, <2>3
  <1> QED BY <1>1, <1>2, <1>3 DEF Holds, t

LEMMA HoldsAppendMark ==
  ASSUME NEW s \in Seq(Int), NEW lo \in Nat, NEW hi \in Nat, Holds(s, lo, hi),
         NEW x \in {Blank, EndOfStream}
  PROVE  Holds(Append(s, x), lo, hi)
  <1> DEFINE t == Append(s, x)
             n == Len(s)
  <1>1. /\ n \in Nat /\ Len(t) = n + 1
        /\ \A i \in 1..n : t[i] = s[i]
        /\ t[n + 1] = x /\ x \in Int /\ ~(x > 0)
    BY AppendProperties, LenProperties DEF Blank, EndOfStream
  <1> HIDE DEF t, n
  <1>2. ASSUME NEW p \in Nat, p > 0
        PROVE  (\E i \in 1..(n + 1) : t[i] = p) <=> (lo < p /\ p <= hi)
    <2>1. (\E i \in 1..(n + 1) : t[i] = p) <=> (\E i \in 1..n : s[i] = p)
      BY <1>1, <1>2
    <2>2. (\E i \in 1..n : s[i] = p) <=> (lo < p /\ p <= hi)
      BY <1>2 DEF Holds, n
    <2> QED BY <2>1, <2>2
  <1>3. ASSUME NEW i \in 1..(n + 1), NEW j \in 1..(n + 1), i < j, t[i] > 0, t[j] > 0
        PROVE  t[i] < t[j]
    <2>1. i \in 1..n /\ j \in 1..n /\ t[i] = s[i] /\ t[j] = s[j]
      BY <1>1, <1>3
    <2> QED BY <1>3, <2>1 DEF Holds, n
  <1> QED BY <1>1, <1>2, <1>3 DEF Holds, t

LEMMA TailOf ==
  ASSUME NEW s \in Seq(Int), s # <<>>
  PROVE  /\ Head(s) = s[1] /\ Head(s) \in Int /\ Tail(s) \in Seq(Int)
         /\ Len(s) \in Nat /\ Len(s) >= 1 /\ Len(Tail(s)) = Len(s) - 1
         /\ \A i \in 1..(Len(s) - 1) : Tail(s)[i] = s[i + 1]
  BY HeadTailProperties, LenProperties, EmptySeq

LEMMA HoldsTailMark ==
  ASSUME NEW s \in Seq(Int), NEW lo \in Nat, NEW hi \in Nat, Holds(s, lo, hi),
         s # <<>>, ~(Head(s) > 0)
  PROVE  Holds(Tail(s), lo, hi)
  <1> DEFINE t == Tail(s)
             n == Len(s)
  <1>1. /\ s[1] \in Int /\ ~(s[1] > 0) /\ n \in Nat /\ n >= 1 /\ Len(t) = n - 1
        /\ \A i \in 1..(n - 1) : t[i] = s[i + 1]
    BY TailOf
  <1> HIDE DEF t, n
  <1>2. ASSUME NEW p \in Nat, p > 0
        PROVE  (\E i \in 1..(n - 1) : t[i] = p) <=> (lo < p /\ p <= hi)
    <2>1. (\E i \in 1..n : s[i] = p) <=> (lo < p /\ p <= hi)
      BY <1>2 DEF Holds, n
    <2>2. ASSUME NEW i \in 1..n, s[i] = p  PROVE \E j \in 1..(n - 1) : t[j] = p
      <3>1. i - 1 \in 1..(n - 1) /\ t[i - 1] = s[i]
        BY <1>1, <1>2, <2>2
      <3> QED BY <2>2, <3>1
    <2>3. ASSUME NEW j \in 1..(n - 1), t[j] = p  PROVE \E i \in 1..n : s[i] = p
      <3>1. j + 1 \in 1..n /\ s[j + 1] = t[j]
        BY <1>1
      <3> QED BY <2>3, <3>1
    <2> QED BY <2>1, <2>2, <2>3
  <1>3. ASSUME NEW i \in 1..(n - 1), NEW j \in 1..(n - 1), i < j, t[i] > 0, t[j] > 0
        PROVE  t[i] < t[j]
    <2>1. /\ i + 1 \in 1..n /\ j + 1 \in 1..n /\ i + 1 < j + 1
          /\ t[i] = s[i + 1] /\ t[j] = s[j + 1]
      BY <1>1, <1>3
    <2> QED BY <1>3, <2>1 DEF Holds, n
  <1> QED BY <1>1, <1>2, <1>3 DEF Holds, t

LEMMA HoldsTailFrame ==
  ASSUME NEW s \in Seq(Int), NEW lo \in Nat, NEW hi \in Nat, Holds(s, lo, hi),
         s # <<>>, Head(s) > 0
  PROVE  Head(s) = lo + 1 /\ lo < hi /\ Holds(Tail(s), lo + 1, hi)
  <1> DEFINE t == Tail(s)
             n == Len(s)
             x == Head(s)
  <1>1. /\ x = s[1] /\ x \in Int /\ x > 0 /\ n \in Nat /\ n >= 1 /\ Len(t) = n - 1
        /\ \A i \in 1..(n - 1) : t[i] = s[i + 1]
    BY TailOf
  <1>2. \A i \in 1..n : s[i] \in Int
    BY ElementOfSeq
  <1> HIDE DEF t, n, x
  <1>3. x \in Nat /\ lo < x /\ x <= hi
    BY <1>1 DEF Holds, n
  <1>4. x = lo + 1
    <2>1. PICK i \in 1..n : s[i] = lo + 1
      BY <1>3 DEF Holds, n
    <2>2. i > 1 => s[1] < s[i]
      BY <1>1, <2>1 DEF Holds, n
    <2> QED BY <1>1, <1>3, <2>1, <2>2
  <1>5. ASSUME NEW p \in Nat, p > 0
        PROVE  (\E i \in 1..(n - 1) : t[i] = p) <=> (lo + 1 < p /\ p <= hi)
    <2>1. (\E i \in 1..n : s[i] = p) <=> (lo < p /\ p <= hi)
      BY <1>5 DEF Holds, n
    <2>2. ASSUME NEW i \in 1..n, s[i] = p, lo + 1 < p  PROVE \E j \in 1..(n - 1) : t[j] = p
      <3>0. x # p
        BY <1>4, <2>2
      <3>1. i # 1
        BY <1>1, <2>2, <3>0
      <3>2. i - 1 \in 1..(n - 1) /\ (i - 1) + 1 = i
        BY <1>1, <3>1
      <3> QED BY <1>1, <2>2, <3>2
    <2>3. ASSUME NEW j \in 1..(n - 1), t[j] = p
          PROVE  (\E i \in 1..n : s[i] = p) /\ x < p
      <3>1. j + 1 \in 1..n /\ s[j + 1] = p /\ 1 < j + 1
        BY <1>1, <2>3
      <3>2. 1 \in 1..n /\ s[1] > 0 /\ s[j + 1] > 0
        BY <1>1, <1>5, <3>1
      <3>3. s[1] < s[j + 1]
        BY <3>1, <3>2 DEF Holds, n
      <3> QED BY <1>1, <3>1, <3>3
    <2> QED BY <1>3, <1>4, <2>1, <2>2, <2>3
  <1>6. ASSUME NEW i \in 1..(n - 1), NEW j \in 1..(n - 1), i < j, t[i] > 0, t[j] > 0
        PROVE  t[i] < t[j]
    <2>1. /\ i + 1 \in 1..n /\ j + 1 \in 1..n /\ i + 1 < j + 1
          /\ t[i] = s[i + 1] /\ t[j] = s[j + 1]
      BY <1>1, <1>6
    <2> QED BY <1>6, <2>1 DEF Holds, n
  <1> QED BY <1>1, <1>3, <1>4, <1>5, <1>6 DEF Holds, t, x

-----------------------------------------------------------------------------
(* The invariant. *)

Ops == {"none", "Create", "Init", "Encode", "Poll", "Flush", "SetOutputSink", "Release"}

Types ==
    /\ request \in Requests
    /\ backend \in {"none", "kFFmpeg", "kAndroid"} /\ life \in LifeStates /\ sink \in BOOLEAN
    /\ call \in {"none", "Encode", "Poll", "FlushInput", "Flush", "crashed"}
    /\ last \in [op : Ops, status : Statuses]
    /\ taken \in Nat /\ coded \in Nat /\ emitted \in Nat
    /\ excused \in Nat /\ discarded \in Nat
    /\ ctx \in {"none", "unopened", "open", "draining"}
    /\ codec \in {"none", "running", "failed"}
    /\ config \in {"due", "taken"} /\ late \in BOOLEAN

Excused == Larger(excused, discarded)

(* The counters: a frame that left the codec without a packet is excused. *)
Counters ==
    /\ emitted <= coded /\ coded <= taken /\ taken <= MaxFrames
    /\ excused <= taken /\ discarded <= taken
    /\ emitted < coded => coded <= Excused

(* What a call in progress, and a state of the lifecycle, say of the rest: *)
(* above all that a flushed encoder has let go of its frames, or has       *)
(* reported them, before an Init or a codec reset drops them.              *)
Stages ==
    /\ backend = "none" => life = "kCreated" /\ codec = "none"
    /\ backend = "kFFmpeg" => codec = "none" /\ discarded = 0
    /\ life = "kCreated" => taken = 0 /\ call = "none"
    /\ CanEncode(life) => excused <= coded
    /\ call \in {"Encode", "Poll"} => life = "kEncoding"
    /\ call \in {"Flush", "FlushInput"} => life = "kFlushed"
    /\ life = "kFlushed" /\ call = "none" => coded = taken \/ taken <= Excused
    /\ backend = "kFFmpeg" /\ call = "Flush" => ctx # "open"
    /\ backend = "kFFmpeg" /\ FlushedOk => coded = taken

(* The signal of a surface flush is the one buffer that may be queued      *)
(* beyond the codec's own. *)
Buffers ==
    /\ input \in Seq(Int) /\ output \in Seq(Int)
    /\ codec = "none" => input = <<>> /\ output = <<>>
    /\ Len(output) <= OutputSlots
    /\ Len(input) <= InputSlots + 1
    /\ Len(input) > InputSlots =>
          SurfaceMode /\ \E i \in 1..Len(input) : input[i] = EndOfStream

Pipeline ==
    codec # "none" =>
        \E mid \in Nat : /\ coded <= mid /\ mid <= taken
                         /\ Holds(output, coded, mid) /\ Holds(input, mid, taken)

Numbers == Types /\ Counters /\ EncodingNeedsCodec /\ Stages

IInv == Numbers /\ Buffers /\ Pipeline

LEMMA InvInit == Init => IInv
  <1> SUFFICES ASSUME Init PROVE IInv
    OBVIOUS
  <1> USE DEF Init, NoneCreated
  <1>1. Types
    BY DEF Types, LifeStates, Ops, Statuses
  <1>2. Counters
    BY EncoderAssumption DEF Counters
  <1>3. EncodingNeedsCodec /\ Stages
    BY DEF EncodingNeedsCodec, CanEncode, Stages, FlushedOk
  <1>4. Buffers /\ Pipeline
    BY SlotAssumption, EmptySeq DEF Buffers, Pipeline
  <1> QED BY <1>1, <1>2, <1>3, <1>4 DEF IInv, Numbers

-----------------------------------------------------------------------------
(* The steps of the FFmpeg encoders. *)

LEMMA FfCallKeeps == ASSUME Numbers, FFmpegCall  PROVE Numbers'
  <1> USE DEF Numbers, Types, LifeStates, Ops, Statuses, Counters, EncodingNeedsCodec, Stages,
          FlushedOk, CanInit, CanEncode, CanFlush, Larger, Excused, FFmpegCall, McUnchanged,
          hwVars, Idle, Refuse, Return, CodecReplaced, objVars, frameVars
  <1>1. CASE FfInitRejected BY <1>1 DEF FfInitRejected
  <1>2. CASE FfInitFails BY <1>2 DEF FfInitFails
  <1>3. CASE FfInit BY <1>3 DEF FfInit
  <1>4. CASE FfEncodeRejected BY <1>4 DEF FfEncodeRejected
  <1>5. CASE FfEncodeUnfit BY <1>5 DEF FfEncodeUnfit
  <1>6. CASE FfEncode BY <1>6, EncoderAssumption DEF FfEncode
  <1>7. CASE FfFlushRejected BY <1>7 DEF FfFlushRejected
  <1>8. CASE FfFlush BY <1>8 DEF FfFlush
  <1>9. CASE FfFlushNoCodec BY <1>9 DEF FfFlushNoCodec
  <1>10. CASE FfRelease BY <1>10 DEF FfRelease
  <1> QED
    BY <1>1, <1>2, <1>3, <1>4, <1>5, <1>6, <1>7, <1>8, <1>9, <1>10 DEF FfCall

LEMMA FfDrainKeeps == ASSUME Numbers, FFmpegDrain  PROVE Numbers'
  <1> USE DEF Numbers, Types, LifeStates, Ops, Statuses, Counters, EncodingNeedsCodec, Stages,
          FlushedOk, CanEncode, Larger, Excused, FFmpegDrain, McUnchanged,
          hwVars, FfDraining, Return, HandOver, RefusedFrame, objVars, frameVars
  <1>1. CASE FfDrainPacket BY <1>1 DEF FfDrainPacket
  <1>2. CASE FfDrainRefused BY <1>2 DEF FfDrainRefused
  <1>3. CASE FfDrainFails BY <1>3 DEF FfDrainFails
  <1>4. CASE FfDrainEnds BY <1>4 DEF FfDrainEnds
  <1> QED BY <1>1, <1>2, <1>3, <1>4 DEF FfDrain

-----------------------------------------------------------------------------
(* The factory, the sink, and the numbers in the MediaCodec encoders. *)

LEMMA CreateKeeps ==
  ASSUME Numbers, Create \/ CreateWithSink \/ CreateWithSinkFails \/ Attach
  PROVE  Numbers'
  <1> USE DEF Numbers, Types, LifeStates, Ops, Statuses, Counters, EncodingNeedsCodec, Stages,
          FlushedOk, CanEncode, Larger, Excused, hwVars, Idle, Return, objVars, frameVars
  <1>1. ResolveBackend \in Registered => ResolveBackend \in {"kFFmpeg", "kAndroid"}
    BY DEF Registered
  <1>2. CASE Create BY <1>1, <1>2 DEF Create
  <1>3. CASE CreateWithSink BY <1>1, <1>3 DEF CreateWithSink
  <1>4. CASE CreateWithSinkFails BY <1>4 DEF CreateWithSinkFails
  <1>5. CASE Attach BY <1>5 DEF Attach, SetOutputSink
  <1> QED BY <1>2, <1>3, <1>4, <1>5

LEMMA McCallKeeps ==
  ASSUME Numbers, AndroidCall
  PROVE  Numbers'
  <1> USE DEF Numbers, Types, LifeStates, Ops, Statuses, Counters, EncodingNeedsCodec, Stages,
          FlushedOk, CanInit, CanEncode, CanFlush, Larger, Excused, AndroidCall, McUnchanged,
          hwVars, Idle, Refuse, Return, CodecReplaced, NoCodec, objVars, frameVars
  <1>1. CASE McInitRejected BY <1>1 DEF McInitRejected
  <1>2. CASE McInitFails
    <2>1. CASE \E st \in {"kInvalidArgument", "kUnsupportedFormat"} :
                  Refuse("Init", st) /\ McUnchanged
      <3>1. PICK st \in {"kInvalidArgument", "kUnsupportedFormat"} :
                Refuse("Init", st) /\ McUnchanged
        BY <2>1
      <3> QED BY <1>2, <3>1 DEF McInitFails
    <2>2. CASE /\ Return("Init", "kPlatformUnsupported")
               /\ NoCodec /\ CodecReplaced
               /\ UNCHANGED <<objVars, late, discarded>>
      BY <1>2, <2>2 DEF McInitFails
    <2>3. CASE /\ \E st \in {"kUnsupportedFormat", "kPlatformUnsupported", "kEncodeFailed"} :
                     Return("Init", st)
               /\ life' = "kReleased" /\ sink' = FALSE
               /\ NoCodec /\ CodecReplaced
               /\ UNCHANGED <<request, backend, late, discarded>>
      <3>1. PICK st \in {"kUnsupportedFormat", "kPlatformUnsupported", "kEncodeFailed"} :
                Return("Init", st)
        BY <2>3
      <3>2. life \in {"kCreated", "kFlushed"} /\ call = "none"
        BY <1>2 DEF McInitFails
      <3>3. Types'
        BY <2>3, <3>1
      <3>4. Counters'
        BY <2>3, <3>2
      <3>5. EncodingNeedsCodec' /\ Stages'
        BY <1>2, <2>3, <3>1
      <3> QED BY <3>3, <3>4, <3>5
    <2> QED BY <1>2, <2>1, <2>2, <2>3 DEF McInitFails
  <1>3. CASE McInit BY <1>3 DEF McInit
  <1>4. CASE McEncodeRejected BY <1>4 DEF McEncodeRejected
  <1>5. CASE McEncodeFails BY <1>5 DEF McEncodeFails
  <1>6. CASE McEncode BY <1>6, EncoderAssumption DEF McEncode
  <1>7. CASE McPollRejected BY <1>7 DEF McPollRejected
  <1>8. CASE McPoll BY <1>8 DEF McPoll
  <1>9. CASE McFlushRejected BY <1>9 DEF McFlushRejected
  <1>10. CASE McFlush BY <1>10 DEF McFlush
  <1>11. CASE McRelease BY <1>11 DEF McRelease
  <1>12. CASE SurfaceDraw BY <1>12, EncoderAssumption DEF SurfaceDraw
  <1>13. CASE McFlushNoCodec BY <1>13 DEF McFlushNoCodec
  <1> QED
    BY <1>1, <1>2, <1>3, <1>4, <1>5, <1>6, <1>7, <1>8, <1>9, <1>10, <1>11, <1>12, <1>13
    DEF McCall

(* The next packet of the codec is that of the next frame. *)
LEMMA NextFrame ==
  ASSUME IInv, codec = "running", output # <<>>, Head(output) > 0
  PROVE  Head(output) = coded + 1 /\ coded < taken
  <1>1. PICK mid \in Nat : mid <= taken /\ Holds(output, coded, mid)
    BY DEF IInv, Pipeline
  <1>2. Head(output) = coded + 1 /\ coded < mid
    BY <1>1, HoldsTailFrame DEF IInv, Numbers, Types, Buffers
  <1> QED BY <1>1, <1>2 DEF IInv, Numbers, Types

(* A call returns after a drain that got as far as frame "gone". *)
LEMMA ReturnKeeps ==
  ASSUME Numbers, backend = "kAndroid", McDraining, NEW st \in {"kOk", "kEncodeFailed"},
         NEW gone \in Nat, coded <= gone, gone <= taken, McReturn(st, gone),
         UNCHANGED <<ctx, codec, taken, emitted>>, config' \in {"due", "taken"},
         st = "kOk" => gone = coded /\ excused' = excused,
         st # "kOk" => excused' = IF call = "Flush" THEN taken ELSE gone
  PROVE  Numbers'
  <1> USE DEF Numbers, Types
  <1>1. /\ call' = "none" /\ last' = [op |-> call, status |-> st] /\ late' = FALSE
        /\ UNCHANGED <<request, backend, life, sink>>
        /\ call \in {"Encode", "Poll", "Flush"}
    BY DEF McReturn, Return, McDraining, objVars
  <1>2. /\ discarded' = IF call = "Flush" /\ st = "kOk" /\ gone < taken THEN taken ELSE discarded
        /\ coded' = IF call = "Flush" /\ ~SurfaceMode THEN taken ELSE gone
    BY DEF McReturn
  <1>3. excused' \in Nat
    BY DEF Counters
  <1>4. excused <= taken /\ discarded <= taken /\ emitted <= coded
    BY DEF Counters
  <1>5. call # "Flush" => excused <= coded /\ life = "kEncoding"
    BY <1>1 DEF Stages, CanEncode
  <1>6. Types'
    BY <1>1, <1>2, <1>3 DEF Ops, Statuses
  <1>7. /\ excused <= excused' /\ excused' <= taken
        /\ discarded <= discarded' /\ discarded' <= taken
    BY <1>2, <1>3, <1>4, <1>5
  <1>8. emitted < coded' => coded' <= Excused'
    <2>1. CASE call = "Flush" /\ st = "kOk"
      BY <1>2, <1>3, <1>4, <1>7, <2>1 DEF Counters, Excused, Larger
    <2>2. CASE call = "Flush" /\ st # "kOk"
      BY <1>2, <1>3, <1>4, <1>7, <2>2 DEF Excused, Larger
    <2>3. CASE call # "Flush" /\ st = "kOk"
      BY <1>2, <2>3 DEF Counters, Excused, Larger
    <2>4. CASE call # "Flush" /\ st # "kOk"
      BY <1>2, <1>3, <1>7, <2>4 DEF Excused, Larger
    <2> QED BY <2>1, <2>2, <2>3, <2>4
  <1>9. Counters'
    BY <1>1, <1>2, <1>4, <1>7, <1>8 DEF Counters
  <1>10. call = "Flush" => coded' = taken \/ taken <= Excused'
    <2>1. CASE st = "kOk"
      BY <1>2, <1>3, <1>6, <2>1 DEF Excused, Larger
    <2>2. CASE st # "kOk"
      BY <1>3, <1>6, <1>7, <2>2 DEF Excused, Larger
    <2> QED BY <2>1, <2>2
  <1>11. call # "Flush" => excused' <= coded'
    BY <1>2, <1>3, <1>5
  <1>12. Stages' /\ EncodingNeedsCodec'
    <2>1. life = "kFlushed" => call = "Flush"
      BY <1>1 DEF Stages
    <2>2. CanEncode(life) => call # "Flush"
      BY DEF Stages, CanEncode
    <2> QED
      BY <1>1, <1>6, <1>10, <1>11, <2>1, <2>2
      DEF Stages, EncodingNeedsCodec, FlushedOk, CanEncode
  <1> QED BY <1>6, <1>9, <1>12

LEMMA McDrainKeeps == ASSUME IInv, AndroidDrain  PROVE Numbers'
  <1>1. backend = "kAndroid" /\ UNCHANGED ctx /\ Numbers
    BY DEF AndroidDrain, IInv
  <1> USE DEF Numbers, Types, hwVars, objVars, frameVars
  <1>2. CASE McFlushInput
    BY <1>1, <1>2 DEF McFlushInput, Counters, EncodingNeedsCodec, Stages, FlushedOk, CanEncode,
       Larger, Excused
  <1>3. CASE McDrainPacket
    <2>1. Head(output) = coded + 1 /\ coded < taken
      BY <1>3, NextFrame DEF McDrainPacket
    <2> QED
      BY <1>1, <1>3, <2>1 DEF McDrainPacket, McDraining, HandOver, Counters,
         EncodingNeedsCodec, Stages, FlushedOk, CanEncode, Larger, Excused
  <1>4. CASE McDrainRefused
    <2>1. Head(output) = coded + 1 /\ coded < taken
      BY <1>4, NextFrame DEF McDrainRefused
    <2>2. /\ McDraining /\ McReturn("kEncodeFailed", coded + 1)
          /\ UNCHANGED <<codec, taken, emitted>> /\ config' \in {"due", "taken"}
          /\ excused' = IF call = "Flush" THEN taken ELSE coded + 1
      BY <1>1, <1>4, <2>1 DEF McDrainRefused
    <2> QED BY <1>1, <2>1, <2>2, ReturnKeeps
  <1>5. CASE McDrainConfig
    BY <1>1, <1>5 DEF McDrainConfig, McDraining, Counters, EncodingNeedsCodec, Stages,
       FlushedOk, CanEncode, Larger, Excused
  <1>6. CASE McDrainEos \/ McDrainEmpty
    <2>1. /\ McDraining /\ McReturn("kOk", coded)
          /\ UNCHANGED <<codec, taken, emitted, excused, config>>
      BY <1>6 DEF McDrainEos, McDrainEmpty
    <2> QED BY <1>1, <2>1, ReturnKeeps DEF Counters
  <1>7. CASE McDrainFails
    <2>1. /\ McDraining /\ McReturn("kEncodeFailed", coded)
          /\ UNCHANGED <<codec, taken, emitted, config>>
          /\ excused' = IF call = "Flush" THEN taken ELSE coded
      BY <1>7 DEF McDrainFails
    <2> QED BY <1>1, <2>1, ReturnKeeps DEF Counters
  <1>8. CASE DeadlinePasses
    BY <1>1, <1>8 DEF DeadlinePasses, Counters, EncodingNeedsCodec, Stages, FlushedOk,
       CanEncode, Larger, Excused
  <1> QED BY <1>2, <1>3, <1>4, <1>5, <1>6, <1>7, <1>8 DEF AndroidDrain, McDrain

LEMMA HardwareKeeps ==
  ASSUME Numbers, AndroidHw \/ AndroidBreaks
  PROVE  /\ Numbers'
         /\ codec = "running" /\ codec' # "none"
         /\ UNCHANGED <<request, taken, coded>>
  <1> USE DEF Numbers, Types, HwRuns, objVars, frameVars
  <1>1. /\ codec = "running" /\ codec' \in {"running", "failed"}
        /\ config' = config
        /\ UNCHANGED <<objVars, call, last, frameVars, late, discarded, ctx>>
    BY DEF AndroidHw, AndroidBreaks, Hardware, HwFails, HwEmitsConfig, HwEncodes, HwSkipsBlank,
       HwEndsStream
  <1>2. Types' /\ Counters'
    BY <1>1 DEF Counters, Larger, Excused
  <1>3. EncodingNeedsCodec' /\ Stages'
    BY <1>1 DEF EncodingNeedsCodec, Stages, FlushedOk, CanEncode, Larger, Excused
  <1> QED BY <1>1, <1>2, <1>3

-----------------------------------------------------------------------------
(* The codec's queues. *)

Queues == Buffers /\ Pipeline

LEMMA QueuesStay ==
  ASSUME IInv, UNCHANGED <<request, input, output>>,
         codec' = codec \/ (codec = "running" /\ codec' = "failed"),
         codec # "none" => UNCHANGED <<taken, coded>>
  PROVE  Queues'
  BY DEF IInv, Queues, Buffers, Pipeline, SurfaceMode

LEMMA QueuesAreNew ==
  ASSUME IInv, input' = <<>>, output' = <<>>, taken' \in Nat, codec' = "none" \/ coded' = taken'
  PROVE  Queues'
  <1>1. Holds(<<>>, taken', taken')
    BY EmptyHolds
  <1>2. Buffers'
    BY SlotAssumption, EmptySeq DEF Buffers
  <1>3. Pipeline'
    BY <1>1 DEF Pipeline
  <1> QED BY <1>2, <1>3 DEF Queues

LEMMA InputGrows ==
  ASSUME IInv, codec = "running", UNCHANGED <<request, codec, output, coded>>,
         NEW x \in Int, input' = Append(input, x),
         \/ x = taken + 1 /\ taken' = taken + 1
         \/ x \in {Blank, EndOfStream} /\ taken' = taken,
         \/ Len(input) < InputSlots
         \/ SurfaceMode /\ x = EndOfStream /\ Len(input) <= InputSlots
  PROVE  Queues'
  <1>1. /\ input \in Seq(Int) /\ Len(input) \in Nat /\ input' \in Seq(Int)
        /\ Len(input') = Len(input) + 1 /\ input'[Len(input) + 1] = x
    BY AppendProperties, LenProperties DEF IInv, Buffers
  <1>2. Buffers'
    <2>1. CASE Len(input) < InputSlots
      BY <1>1, <2>1, SlotAssumption DEF IInv, Buffers
    <2>2. CASE SurfaceMode /\ x = EndOfStream /\ Len(input) <= InputSlots
      <3>1. Len(input) + 1 \in 1..Len(input')
        BY <1>1
      <3>2. SurfaceMode'
        BY <2>2 DEF SurfaceMode
      <3> QED BY <1>1, <2>2, <3>1, <3>2, SlotAssumption DEF IInv, Buffers
    <2> QED BY <2>1, <2>2
  <1>3. PICK mid \in Nat : /\ coded <= mid /\ mid <= taken
                           /\ Holds(output, coded, mid) /\ Holds(input, mid, taken)
    BY DEF IInv, Pipeline
  <1>4. taken \in Nat
    BY DEF IInv, Numbers, Types
  <1>5. Holds(input', mid, taken') /\ mid <= taken'
    BY <1>1, <1>3, <1>4, HoldsAppendFrame, HoldsAppendMark
  <1>6. Pipeline'
    BY <1>3, <1>5 DEF Pipeline
  <1> QED BY <1>2, <1>6 DEF Queues

LEMMA OutputShrinks ==
  ASSUME IInv, codec = "running", UNCHANGED <<request, codec, input, taken>>,
         output # <<>>, output' = Tail(output),
         coded' = IF Head(output) > 0 THEN Head(output) ELSE coded
  PROVE  Queues'
  <1>1. /\ output \in Seq(Int) /\ coded \in Nat
        /\ output' \in Seq(Int) /\ Len(output') <= OutputSlots
    BY TailOf, SlotAssumption DEF IInv, Numbers, Types, Buffers
  <1>2. Buffers'
    BY <1>1 DEF IInv, Buffers, SurfaceMode
  <1>3. PICK mid \in Nat : /\ coded <= mid /\ mid <= taken
                           /\ Holds(output, coded, mid) /\ Holds(input, mid, taken)
    BY DEF IInv, Pipeline
  <1>4. Holds(output', coded', mid) /\ coded' <= mid
    <2>1. CASE Head(output) > 0
      BY <1>1, <1>3, <2>1, HoldsTailFrame
    <2>2. CASE ~(Head(output) > 0)
      BY <1>1, <1>3, <2>2, HoldsTailMark
    <2> QED BY <2>1, <2>2
  <1>5. Pipeline'
    BY <1>3, <1>4 DEF Pipeline
  <1> QED BY <1>2, <1>5 DEF Queues

(* The hardware takes an input buffer, and fills an output buffer with its *)
(* frame, with a mark, or with none.                                       *)
LEMMA InputShrinks ==
  ASSUME IInv, codec = "running", UNCHANGED <<request, codec, taken, coded>>,
         input # <<>>, input' = Tail(input),
         \/ Head(input) > 0 /\ output' = Append(output, Head(input))
         \/ ~(Head(input) > 0) /\ output' = Append(output, EndOfStream)
         \/ ~(Head(input) > 0) /\ output' = output,
         output' # output => Len(output) < OutputSlots
  PROVE  Queues'
  <1>1. /\ input \in Seq(Int) /\ output \in Seq(Int) /\ taken \in Nat /\ coded \in Nat
        /\ Head(input) \in Int /\ EndOfStream \in Int
        /\ Len(input) \in Nat /\ Len(output) \in Nat
    BY TailOf, LenProperties DEF IInv, Numbers, Types, Buffers, EndOfStream
  <1>2. input' \in Seq(Int) /\ Len(input') = Len(input) - 1
    BY <1>1, TailOf
  <1>3. /\ output' \in Seq(Int)
        /\ output' = output \/ Len(output') = Len(output) + 1
    <2>1. ASSUME NEW x \in Int, output' = Append(output, x)
          PROVE  output' \in Seq(Int) /\ Len(output') = Len(output) + 1
      BY <1>1, <2>1, AppendProperties
    <2> QED BY <1>1, <2>1
  <1>4. Buffers'
    BY <1>1, <1>2, <1>3, SlotAssumption DEF IInv, Buffers
  <1>5. PICK mid \in Nat : /\ coded <= mid /\ mid <= taken
                           /\ Holds(output, coded, mid) /\ Holds(input, mid, taken)
    BY DEF IInv, Pipeline
  <1>6. CASE Head(input) > 0
    <2>1. Head(input) = mid + 1 /\ mid < taken /\ Holds(input', mid + 1, taken)
      BY <1>1, <1>5, <1>6, HoldsTailFrame
    <2>2. output' = Append(output, mid + 1)
      BY <1>6, <2>1
    <2>3. Holds(output', coded, mid + 1)
      BY <1>1, <1>5, <2>2, HoldsAppendFrame
    <2>4. mid + 1 \in Nat /\ coded <= mid + 1 /\ mid + 1 <= taken
      BY <1>1, <1>5, <2>1
    <2>5. Pipeline'
      BY <2>1, <2>3, <2>4 DEF Pipeline
    <2> QED BY <1>4, <2>5 DEF Queues
  <1>7. CASE ~(Head(input) > 0)
    <2>1. Holds(input', mid, taken)
      BY <1>1, <1>5, <1>7, HoldsTailMark
    <2>2. Holds(output', coded, mid)
      BY <1>1, <1>5, <1>7, HoldsAppendMark
    <2>3. Pipeline'
      BY <1>5, <2>1, <2>2 DEF Pipeline
    <2> QED BY <1>4, <2>3 DEF Queues
  <1> QED BY <1>6, <1>7

LEMMA ConfigGrows ==
  ASSUME IInv, codec = "running", UNCHANGED <<request, codec, taken, coded, input>>,
         output' = Append(output, Blank), Len(output) < OutputSlots
  PROVE  Queues'
  <1>1. /\ output \in Seq(Int) /\ Blank \in Int /\ coded \in Nat /\ Len(output) \in Nat
        /\ output' \in Seq(Int) /\ Len(output') = Len(output) + 1
    BY AppendProperties, LenProperties DEF IInv, Numbers, Types, Buffers, Blank
  <1>2. Buffers'
    BY <1>1, SlotAssumption DEF IInv, Buffers, SurfaceMode
  <1>3. PICK mid \in Nat : /\ coded <= mid /\ mid <= taken
                           /\ Holds(output, coded, mid) /\ Holds(input, mid, taken)
    BY DEF IInv, Pipeline
  <1>4. Holds(output', coded, mid)
    BY <1>1, <1>3, HoldsAppendMark
  <1>5. Pipeline'
    BY <1>3, <1>4 DEF Pipeline
  <1> QED BY <1>2, <1>5 DEF Queues

LEMMA FFmpegQueues ==
  ASSUME IInv, FFmpegCall \/ FFmpegDrain  PROVE Queues'
  <1>1. codec = "none"
    BY DEF FFmpegCall, FFmpegDrain, IInv, Numbers, Stages
  <1>2. UNCHANGED <<hwVars, request>>
    BY DEF FFmpegCall, FFmpegDrain, McUnchanged, FfCall, FfInitRejected, FfInitFails, FfInit,
       FfEncodeRejected, FfEncodeUnfit, FfEncode, FfFlushRejected, FfFlush, FfFlushNoCodec,
       FfRelease, FfDrain, FfDraining, FfDrainPacket, FfDrainRefused, FfDrainFails, FfDrainEnds,
       Refuse, objVars
  <1> QED BY <1>1, <1>2, QueuesStay DEF hwVars

LEMMA CreateQueues ==
  ASSUME IInv, Create \/ CreateWithSink \/ CreateWithSinkFails \/ Attach
  PROVE  Queues'
  <1>1. CASE Create \/ CreateWithSinkFails \/ Attach
    <2>1. UNCHANGED <<request, hwVars, taken, coded>>
      BY <1>1 DEF Create, CreateWithSinkFails, Attach, SetOutputSink, objVars, frameVars
    <2> QED BY <2>1, QueuesStay DEF hwVars
  <1>2. CASE CreateWithSink
    <2>1. codec = "none" /\ life = "kCreated"
      BY <1>2 DEF CreateWithSink, IInv, Numbers, Stages
    <2>2. input = <<>> /\ output = <<>> /\ taken = 0 /\ coded = 0
      BY <2>1 DEF IInv, Numbers, Types, Counters, Stages, Buffers
    <2>3. input' = <<>> /\ output' = <<>> /\ taken' = 0 /\ coded' = 0
      BY <1>2, <2>2 DEF CreateWithSink, hwVars, frameVars
    <2> QED BY <2>3, QueuesAreNew
  <1> QED BY <1>1, <1>2

LEMMA AndroidCallQueues ==
  ASSUME IInv, AndroidCall  PROVE Queues'
  <1> USE DEF hwVars, objVars, frameVars
  <1>1. CASE UNCHANGED <<request, hwVars, taken, coded>>
    BY <1>1, QueuesStay
  <1>2. CASE NoCodec /\ UNCHANGED taken
    BY <1>2, QueuesAreNew DEF NoCodec, IInv, Numbers, Types
  <1>3. CASE McInit
    BY <1>3, QueuesAreNew DEF McInit, CodecReplaced, IInv, Numbers, Types
  <1>4. CASE McEncode \/ SurfaceDraw
    <2>1. /\ codec = "running" /\ UNCHANGED <<request, codec, output, coded>>
          /\ input' = Append(input, taken + 1) /\ taken' = taken + 1
          /\ Len(input) < InputSlots
      BY <1>4 DEF McEncode, SurfaceDraw
    <2>2. taken + 1 \in Int
      BY DEF IInv, Numbers, Types
    <2> QED BY <2>1, <2>2, InputGrows
  <1>5. CASE McEncodeFails
    <2>1. UNCHANGED <<request, codec, output, taken, coded>>
      BY <1>5 DEF McEncodeFails
    <2>2. \/ UNCHANGED input
          \/ codec = "running" /\ Len(input) < InputSlots /\ input' = Append(input, Blank)
      BY <1>5 DEF McEncodeFails
    <2>3. Blank \in Int
      BY DEF Blank
    <2> QED BY <1>1, <2>1, <2>2, <2>3, InputGrows
  <1>6. CASE McFlush
    <2>1. UNCHANGED <<request, codec, output, taken, coded>>
      BY <1>6 DEF McFlush
    <2>2. UNCHANGED input \/ (SurfaceMode /\ input' = WithEndOfStream)
      BY <1>6 DEF McFlush
    <2>3. CASE /\ SurfaceMode /\ codec = "running" /\ input' = Append(input, EndOfStream)
               /\ ~\E i \in DOMAIN input : input[i] = EndOfStream
      <3>1. Len(input) <= InputSlots
        <4>1. /\ Len(input) \in Nat /\ DOMAIN input = 1..Len(input)
              /\ InputSlots \in Nat /\ Len(input) <= InputSlots + 1
          BY LenProperties, SlotAssumption DEF IInv, Buffers
        <4>2. Len(input) > InputSlots => \E i \in 1..Len(input) : input[i] = EndOfStream
          BY DEF IInv, Buffers
        <4> QED BY <2>3, <4>1, <4>2
      <3>2. EndOfStream \in Int
        BY DEF EndOfStream
      <3> QED BY <2>1, <2>3, <3>1, <3>2, InputGrows
    <2> QED BY <1>1, <2>1, <2>2, <2>3 DEF WithEndOfStream
  <1>7. CASE McRelease
    BY <1>2, <1>7 DEF McRelease
  <1>8. CASE McInitFails
    BY <1>1, <1>2, <1>8 DEF McInitFails, Refuse, McUnchanged, CodecReplaced
  <1>9. CASE \/ McInitRejected \/ McEncodeRejected \/ McPollRejected \/ McPoll
             \/ McFlushRejected \/ McFlushNoCodec
    BY <1>1, <1>9 DEF McInitRejected, McEncodeRejected, McPollRejected, McPoll,
       McFlushRejected, McFlushNoCodec, Refuse, McUnchanged
  <1> QED
    BY <1>3, <1>4, <1>5, <1>6, <1>7, <1>8, <1>9 DEF AndroidCall, McCall

LEMMA AndroidDrainQueues ==
  ASSUME IInv, AndroidDrain  PROVE Queues'
  <1> USE DEF hwVars, objVars, frameVars
  <1>1. CASE UNCHANGED <<request, hwVars, taken, coded>>
    BY <1>1, QueuesStay
  <1>2. ASSUME NEW st, NEW gone, McReturn(st, gone), UNCHANGED taken
        PROVE  \/ Queues'
               \/ coded' = gone /\ (call # "Flush" \/ SurfaceMode)
    <2>1. taken \in Nat
      BY DEF IInv, Numbers, Types
    <2>2. CASE call = "Flush" /\ ~SurfaceMode
      BY <1>2, <2>1, <2>2, QueuesAreNew DEF McReturn
    <2>3. CASE ~(call = "Flush" /\ ~SurfaceMode)
      BY <1>2, <2>3 DEF McReturn
    <2> QED BY <2>2, <2>3
  <1>3. CASE McFlushInput
    <2>1. UNCHANGED <<request, codec, output, taken, coded>>
      BY <1>3 DEF McFlushInput
    <2>2. \/ UNCHANGED input
          \/ codec = "running" /\ Len(input) < InputSlots /\ input' = Append(input, EndOfStream)
      BY <1>3 DEF McFlushInput
    <2>3. EndOfStream \in Int
      BY DEF EndOfStream
    <2> QED BY <1>1, <2>1, <2>2, <2>3, InputGrows
  <1>4. CASE McDrainPacket
    BY <1>4, OutputShrinks DEF McDrainPacket, McDraining, HandOver
  <1>5. CASE McDrainRefused
    <2>1. /\ codec = "running" /\ UNCHANGED <<request, codec, taken>>
          /\ output # <<>> /\ Head(output) > 0 /\ McReturn("kEncodeFailed", Head(output))
          /\ call # "Flush" \/ SurfaceMode => output' = Tail(output) /\ UNCHANGED input
      BY <1>5 DEF McDrainRefused, McDraining
    <2> QED BY <1>2, <2>1, OutputShrinks
  <1>6. CASE McDrainConfig
    <2>1. ~(Blank > 0)
      BY DEF Blank
    <2> QED BY <1>6, <2>1, OutputShrinks DEF McDrainConfig, McDraining
  <1>7. CASE McDrainEos
    <2>1. ~(EndOfStream > 0)
      BY DEF EndOfStream
    <2>2. /\ codec = "running" /\ UNCHANGED <<request, codec, taken>> /\ call = "Flush"
          /\ output # <<>> /\ Head(output) = EndOfStream /\ McReturn("kOk", coded)
          /\ SurfaceMode => output' = Tail(output) /\ UNCHANGED input
      BY <1>7 DEF McDrainEos, McDraining
    <2> QED BY <1>2, <2>1, <2>2, OutputShrinks
  <1>8. CASE McDrainEmpty \/ McDrainFails
    <2>1. /\ UNCHANGED <<request, codec, taken>>
          /\ \E st : McReturn(st, coded)
          /\ call # "Flush" \/ SurfaceMode => UNCHANGED <<input, output>>
      BY <1>8 DEF McDrainEmpty, McDrainFails, McDraining
    <2> QED BY <1>1, <1>2, <2>1
  <1>9. CASE DeadlinePasses
    BY <1>1, <1>9 DEF DeadlinePasses
  <1> QED
    BY <1>3, <1>4, <1>5, <1>6, <1>7, <1>8, <1>9 DEF AndroidDrain, McDrain

LEMMA HardwareQueues ==
  ASSUME IInv, AndroidHw \/ AndroidBreaks  PROVE Queues'
  <1>1. codec = "running" /\ UNCHANGED <<request, taken, coded>>
    BY HardwareKeeps DEF IInv
  <1>2. CASE HwEmitsConfig
    BY <1>1, <1>2, ConfigGrows DEF HwEmitsConfig
  <1>3. CASE HwEncodes
    BY <1>1, <1>3, InputShrinks DEF HwEncodes
  <1>4. CASE HwSkipsBlank
    <2>1. ~(Blank > 0)
      BY DEF Blank
    <2> QED BY <1>1, <1>4, <2>1, InputShrinks DEF HwSkipsBlank
  <1>5. CASE HwEndsStream
    <2>1. ~(EndOfStream > 0)
      BY DEF EndOfStream
    <2> QED BY <1>1, <1>5, <2>1, InputShrinks DEF HwEndsStream
  <1>6. CASE HwFails
    BY <1>1, <1>6, QueuesStay DEF HwFails
  <1> QED BY <1>2, <1>3, <1>4, <1>5, <1>6 DEF AndroidHw, AndroidBreaks, Hardware

LEMMA InvStep == ASSUME IInv, [Next]_vars  PROVE IInv'
  <1>1. CASE FFmpegCall \/ FFmpegDrain
    BY <1>1, FfCallKeeps, FfDrainKeeps, FFmpegQueues DEF IInv, Queues
  <1>2. CASE Create \/ CreateWithSink \/ CreateWithSinkFails \/ Attach
    BY <1>2, CreateKeeps, CreateQueues DEF IInv, Queues
  <1>3. CASE AndroidCall
    BY <1>3, McCallKeeps, AndroidCallQueues DEF IInv, Queues
  <1>4. CASE AndroidDrain
    BY <1>4, McDrainKeeps, AndroidDrainQueues DEF IInv, Queues
  <1>5. CASE AndroidHw \/ AndroidBreaks
    BY <1>5, HardwareKeeps, HardwareQueues DEF IInv, Queues
  <1>6. CASE UNCHANGED vars
    <2> USE <1>6 DEF vars, objVars, frameVars, hwVars
    <2>1. Types' /\ Counters'
      BY DEF IInv, Numbers, Types, Counters, Excused, Larger
    <2>2. EncodingNeedsCodec' /\ Stages'
      BY DEF IInv, Numbers, EncodingNeedsCodec, Stages, FlushedOk, CanEncode, Excused, Larger
    <2>3. Queues'
      BY QueuesStay
    <2> QED BY <2>1, <2>2, <2>3 DEF IInv, Numbers, Queues
  <1> QED BY <1>1, <1>2, <1>3, <1>4, <1>5, <1>6 DEF Next, Crashed

-----------------------------------------------------------------------------
(* The theorems. *)

(* IInv holds in every state of an encoder.                                *)
THEOREM Invariance == Spec => []IInv
  BY InvInit, InvStep, PTL DEF Spec

(* Every variable keeps its type; the frame counters never overtake each   *)
(* other, and a codec never has more buffers in use than its own and the   *)
(* signal of a surface flush (mediacodec_video.cc).                        *)
THEOREM EncodersAreTyped == Spec => []TypeOK
  <1>1. IInv => TypeOK
    <2> SUFFICES ASSUME IInv PROVE TypeOK
      OBVIOUS
    <2>1. /\ request \in Requests /\ backend \in Backends \cup {"none"}
          /\ life \in LifeStates /\ sink \in BOOLEAN
          /\ call \in {"none", "Encode", "Poll", "FlushInput", "Flush", "crashed"}
          /\ last.status \in Statuses
          /\ ctx \in {"none", "unopened", "open", "draining"}
          /\ codec \in {"none", "running", "failed"}
          /\ config \in {"due", "taken"} /\ late \in BOOLEAN
      BY DEF IInv, Numbers, Types, Backends
    <2>2. /\ emitted \in 0..coded /\ coded \in 0..taken
          /\ taken \in 0..MaxFrames /\ excused \in 0..taken /\ discarded \in 0..taken
      BY EncoderAssumption DEF IInv, Numbers, Types, Counters
    <2>3. Len(input) \in Nat
      BY LenProperties DEF IInv, Buffers
    <2>4. /\ Len(input) <= InputSlots + (IF SurfaceMode THEN 1 ELSE 0)
          /\ Len(output) <= OutputSlots
      BY <2>3, SlotAssumption DEF IInv, Buffers
    <2> QED BY <2>1, <2>2, <2>4 DEF TypeOK
  <1> QED BY <1>1, Invariance, PTL

(* An encoder that its lifecycle lets encode has a codec that can, after   *)
(* any sequence of calls: no failed Init, Flush or Release leaves the one  *)
(* without the other (ffmpeg_video.cc:44-47, mediacodec_video.cc:44-46).   *)
THEOREM EncodersHaveCodecs == Spec => []EncodingNeedsCodec
  <1>1. IInv => EncodingNeedsCodec
    BY DEF IInv, Numbers
  <1> QED BY <1>1, Invariance, PTL

(* A Flush of an FFmpeg encoder that returned kOk has left no frame in the *)
(* codec, and every frame without a packet is one an error was returned    *)
(* for (the drain of ffmpeg_video.cc and ffmpeg_audio.cc).                 *)
THEOREM FFmpegFlushesDrain == Spec => []FFmpegFlushDrains
  <1>1. IInv => FFmpegFlushDrains
    <2> SUFFICES ASSUME IInv, backend = "kFFmpeg", FlushedOk
                 PROVE  coded = taken /\ (emitted < taken => taken <= excused)
      BY DEF FFmpegFlushDrains, FlushDrains
    <2>1. coded = taken /\ discarded = 0
      BY DEF IInv, Numbers, Stages
    <2>2. emitted < taken => taken <= excused
      BY <2>1 DEF IInv, Numbers, Types, Counters, Excused, Larger
    <2> QED BY <2>1, <2>2
  <1> QED BY <1>1, Invariance, PTL

(* What a step does to the frames the contract is about. *)
Takes == taken' = taken + 1 /\ UNCHANGED <<emitted, excused, discarded>>

Emits ==
    /\ coded < taken /\ emitted' = coded + 1
    /\ UNCHANGED <<taken, excused, discarded>>

Excuses ==
    /\ excused <= excused' /\ excused' <= taken
    /\ discarded <= discarded' /\ discarded' <= taken
    /\ excused' \in Nat /\ discarded' \in Nat
    /\ UNCHANGED <<taken, emitted>>

LEMMA StepsOfFrames ==
  ASSUME IInv, [Next]_vars
  PROVE  Takes \/ Emits \/ Excuses
  <1>1. /\ taken \in Nat /\ coded \in Nat /\ emitted \in Nat
        /\ excused \in Nat /\ discarded \in Nat
        /\ excused <= taken /\ discarded <= taken /\ coded <= taken
    BY DEF IInv, Numbers, Types, Counters
  <1>2. /\ excused' \in Nat /\ discarded' \in Nat /\ taken' \in Nat
        /\ excused' <= taken' /\ discarded' <= taken'
    BY InvStep DEF IInv, Numbers, Types, Counters
  <1>3. call \in {"Encode", "Poll"} => excused <= coded
    BY DEF IInv, Numbers, Stages, CanEncode
  <1>4. CASE UNCHANGED <<taken, emitted, excused, discarded>>
    BY <1>1, <1>4 DEF Excuses
  <1>5. ASSUME NEW n \in Nat, n = coded \/ n = coded + 1, call \in {"Encode", "Poll", "Flush"},
               excused' = IF call = "Flush" THEN taken ELSE n,
               discarded' \in {discarded, taken}, UNCHANGED <<taken, emitted>>
        PROVE  Excuses
    BY <1>1, <1>2, <1>3, <1>5 DEF Excuses
  <1> USE DEF objVars, frameVars
  <1>6. CASE FFmpegCall
    <2>1. CASE FfEncode
      BY <1>6, <2>1 DEF FFmpegCall, FfEncode, McUnchanged, Takes
    <2>2. CASE ~FfEncode
      BY <1>4, <1>6, <2>2
      DEF FFmpegCall, FfCall, FfInitRejected, FfInitFails, FfInit, FfEncodeRejected,
          FfEncodeUnfit, FfFlushRejected, FfFlush, FfFlushNoCodec, FfRelease,
          Refuse, CodecReplaced, McUnchanged
    <2> QED BY <2>1, <2>2
  <1>7. CASE FFmpegDrain
    <2>1. call \in {"Encode", "Flush"} /\ discarded' = discarded
      BY <1>7 DEF FFmpegDrain, McUnchanged, FfDrain, FfDrainPacket, FfDrainRefused,
         FfDrainFails, FfDrainEnds, FfDraining
    <2>2. CASE FfDrainPacket
      BY <1>1, <2>1, <2>2 DEF FfDrainPacket, HandOver, Emits
    <2>3. CASE FfDrainRefused
      BY <1>1, <1>5, <2>1, <2>3 DEF FfDrainRefused, RefusedFrame
    <2>4. CASE FfDrainFails
      <3>1. /\ coded' = coded \/ coded' = coded + 1
            /\ excused' = IF call = "Flush" THEN taken ELSE coded'
            /\ UNCHANGED <<taken, emitted>>
        BY <2>4 DEF FfDrainFails
      <3>2. coded' \in Nat
        BY <1>1, <3>1
      <3> QED BY <1>5, <2>1, <3>1, <3>2
    <2>5. CASE FfDrainEnds
      BY <1>4, <2>1, <2>5 DEF FfDrainEnds
    <2> QED BY <1>7, <2>2, <2>3, <2>4, <2>5 DEF FFmpegDrain, FfDrain
  <1>8. CASE Create \/ CreateWithSink \/ CreateWithSinkFails \/ Attach
    BY <1>4, <1>8 DEF Create, CreateWithSink, CreateWithSinkFails, Attach, SetOutputSink
  <1>9. CASE AndroidCall
    <2>1. CASE McEncode \/ SurfaceDraw
      BY <2>1 DEF McEncode, SurfaceDraw, Takes
    <2>2. CASE McInitFails
      BY <1>4, <2>2 DEF McInitFails, Refuse, CodecReplaced, McUnchanged
    <2>3. CASE ~(McEncode \/ SurfaceDraw \/ McInitFails)
      BY <1>4, <1>9, <2>3
      DEF AndroidCall, McCall, McInitRejected, McInit, McEncodeRejected, McEncodeFails,
          McPollRejected, McPoll, McFlushRejected, McFlush, McFlushNoCodec, McRelease, Refuse,
          CodecReplaced, McUnchanged
    <2> QED BY <2>1, <2>2, <2>3
  <1>10. CASE AndroidDrain
    <2>1. CASE McFlushInput \/ McDrainConfig \/ DeadlinePasses
      BY <1>4, <2>1 DEF McFlushInput, McDrainConfig, DeadlinePasses
    <2>2. CASE McDrainPacket
      <3>1. Head(output) = coded + 1 /\ coded < taken
        BY <2>2, NextFrame DEF McDrainPacket
      <3> QED BY <2>2, <3>1 DEF McDrainPacket, HandOver, Emits
    <2>3. CASE McDrainRefused
      <3>1. Head(output) = coded + 1 /\ coded < taken
        BY <2>3, NextFrame DEF McDrainRefused
      <3>2. /\ call \in {"Encode", "Poll", "Flush"}
            /\ excused' = IF call = "Flush" THEN taken ELSE coded + 1
            /\ discarded' \in {discarded, taken} /\ UNCHANGED <<taken, emitted>>
        BY <2>3, <3>1 DEF McDrainRefused, McDraining, McReturn
      <3> QED BY <1>1, <1>5, <3>2
    <2>4. CASE McDrainFails
      <3>1. /\ call \in {"Encode", "Poll", "Flush"}
            /\ excused' = IF call = "Flush" THEN taken ELSE coded
            /\ discarded' \in {discarded, taken} /\ UNCHANGED <<taken, emitted>>
        BY <2>4 DEF McDrainFails, McDraining, McReturn
      <3> QED BY <1>1, <1>5, <3>1
    <2>5. CASE McDrainEos \/ McDrainEmpty
      <3>1. discarded' \in {discarded, taken} /\ UNCHANGED <<taken, emitted, excused>>
        BY <2>5 DEF McDrainEos, McDrainEmpty, McReturn
      <3> QED BY <1>1, <3>1 DEF Excuses
    <2> QED BY <1>10, <2>1, <2>2, <2>3, <2>4, <2>5 DEF AndroidDrain, McDrain
  <1>11. CASE AndroidHw \/ AndroidBreaks
    BY <1>4, <1>11 DEF AndroidHw, AndroidBreaks, Hardware, HwEmitsConfig, HwEncodes,
       HwSkipsBlank, HwEndsStream, HwFails, HwRuns
  <1>12. CASE UNCHANGED vars
    BY <1>4, <1>12 DEF vars
  <1> QED BY <1>6, <1>7, <1>8, <1>9, <1>10, <1>11, <1>12 DEF Next, Crashed

(* Either backend's encoder implements EncoderContract: packets reach the  *)
(* sink in the order of their frames, none twice; and missing are only     *)
(* frames of a call that returned an error and, on Android, frames that a  *)
(* Flush which returned kOk left in the codec it then reset                *)
(* (mediacodec_video.cc:231-235), which nothing reports.  It is so through *)
(* any sequence of Init, Encode, Poll, Flush and Release, and whatever the *)
(* codec's hardware does meanwhile.                                        *)
THEOREM EncodersKeepContract == Spec => EncoderKeepsContract
  <1>1. Init => Contract!Init
    BY DEF Init, NoneCreated, Contract!Init, Larger
  <1>2. ASSUME IInv, [Next]_vars  PROVE [Contract!Next]_(Contract!vars)
    <2>1. /\ taken \in Nat /\ coded \in Nat /\ emitted \in Nat
          /\ excused \in Nat /\ discarded \in Nat
          /\ emitted <= coded /\ (emitted < coded => coded <= Larger(excused, discarded))
      BY <1>2 DEF IInv, Numbers, Types, Counters, Excused
    <2>2. CASE Takes
      BY <2>2 DEF Takes, Larger, Contract!Next, Contract!Take
    <2>3. CASE Emits
      <3>1. /\ coded + 1 \in (emitted + 1)..taken
            /\ coded + 1 > emitted + 1 => (coded + 1) - 1 <= Larger(excused, discarded)
        BY <2>1, <2>3 DEF Emits
      <3>2. emitted' = coded + 1 /\ taken' = taken
            /\ Larger(excused, discarded)' = Larger(excused, discarded)
        BY <2>3 DEF Emits, Larger
      <3> QED BY <3>1, <3>2 DEF Contract!Next, Contract!Emit
    <2>4. CASE Excuses
      <3>1. Larger(excused, discarded)' \in Larger(excused, discarded)..taken
        BY <2>1, <2>4 DEF Excuses, Larger
      <3>2. taken' = taken /\ emitted' = emitted
        BY <2>4 DEF Excuses
      <3> QED BY <3>1, <3>2 DEF Contract!Next, Contract!Excuse
    <2> QED BY <1>2, <2>2, <2>3, <2>4, StepsOfFrames
  <1> QED BY <1>1, <1>2, Invariance, PTL DEF Spec, EncoderKeepsContract, Contract!Spec

(* The contract to the letter: only an error excuses a missing frame.      *)
Strict == INSTANCE EncoderContract

(* The FFmpeg encoders keep it to the letter: packets in frame order, none *)
(* twice, and none missing but those a call returned an error for          *)
(* (ffmpeg_video.cc:184-226; the same loop drains the audio).              *)
THEOREM FFmpegKeepsContract ==
  Spec /\ [](backend # "kAndroid") => Strict!Spec
  <1>1. Init => Strict!Init
    BY DEF Init, NoneCreated, Strict!Init
  <1>2. ASSUME IInv, backend # "kAndroid", [Next]_vars
        PROVE  [Strict!Next]_(Strict!vars)
    <2>1. /\ taken \in Nat /\ coded \in Nat /\ emitted \in Nat /\ excused \in Nat
          /\ emitted <= coded /\ coded <= taken
          /\ emitted < coded => coded <= Larger(excused, discarded)
      BY <1>2 DEF IInv, Numbers, Types, Counters, Excused
    <2>2. discarded = 0 \/ taken = 0
      BY <1>2 DEF IInv, Numbers, Types, Stages
    <2>3. emitted < coded => coded <= excused
      BY <2>1, <2>2 DEF Larger
    <2>4. CASE Takes
      BY <2>4 DEF Takes, Strict!Next, Strict!Take
    <2>5. CASE Emits
      <3>1. /\ coded + 1 \in (emitted + 1)..taken
            /\ coded + 1 > emitted + 1 => (coded + 1) - 1 <= excused
        BY <2>1, <2>3, <2>5 DEF Emits
      <3>2. emitted' = coded + 1 /\ UNCHANGED <<taken, excused>>
        BY <2>5 DEF Emits
      <3> QED BY <3>1, <3>2 DEF Strict!Next, Strict!Emit
    <2>6. CASE Excuses
      <3>1. excused' \in excused..taken /\ UNCHANGED <<taken, emitted>>
        BY <2>1, <2>6 DEF Excuses
      <3> QED BY <3>1 DEF Strict!Next, Strict!Excuse
    <2> QED BY <1>2, <2>4, <2>5, <2>6, StepsOfFrames
  <1> QED BY <1>1, <1>2, Invariance, PTL DEF Spec, Strict!Spec

-----------------------------------------------------------------------------
(* Room for the next frame. *)

LEMMA SpanSize ==
  ASSUME NEW lo \in Nat, NEW hi \in Nat, lo <= hi
  PROVE  IsFiniteSet((lo + 1)..hi) /\ Cardinality((lo + 1)..hi) = hi - lo
  <1> DEFINE a == lo + 1
  <1>1. a \in Int /\ hi \in Int /\ (IF a > hi THEN 0 ELSE hi - a + 1) = hi - lo
    OBVIOUS
  <1> HIDE DEF a
  <1>2. /\ IsFiniteSet(a..hi)
        /\ Cardinality(a..hi) = IF a > hi THEN 0 ELSE hi - a + 1
    BY <1>1, FS_Interval
  <1>3. IsFiniteSet(a..hi) /\ Cardinality(a..hi) = hi - lo
    BY <1>1, <1>2
  <1> QED BY <1>3 DEF a

LEMMA IndexCount == ASSUME NEW n \in Nat  PROVE IsFiniteSet(1..n) /\ Cardinality(1..n) = n
  <1>1. /\ IsFiniteSet(1..n)
        /\ Cardinality(1..n) = IF 1 > n THEN 0 ELSE n - 1 + 1
    BY FS_Interval
  <1>2. (IF 1 > n THEN 0 ELSE n - 1 + 1) = n
    OBVIOUS
  <1> QED BY <1>1, <1>2

(* A queue that holds hi - lo frames has a buffer for each of them. *)
LEMMA FramesHeld ==
  ASSUME NEW s \in Seq(Int), NEW lo \in Nat, NEW hi \in Nat, lo <= hi, Holds(s, lo, hi)
  PROVE  LET P == {i \in 1..Len(s) : s[i] > 0}
         IN  IsFiniteSet(P) /\ Cardinality(P) = hi - lo
  <1> DEFINE n == Len(s)
             P == {i \in 1..n : s[i] > 0}
             F == (lo + 1)..hi
             f == [i \in P |-> s[i]]
  <1>1. n \in Nat /\ \A i \in 1..n : s[i] \in Int
    BY LenProperties, ElementOfSeq
  <1>2. IsFiniteSet(1..n)
    BY <1>1, FS_Interval
  <1>3. IsFiniteSet(P)
    BY <1>2, FS_Subset
  <1>4. IsFiniteSet(F) /\ Cardinality(F) = hi - lo
    BY SpanSize
  <1>5. \A p \in Nat : p > 0 => ((\E i \in 1..n : s[i] = p) <=> (lo < p /\ p <= hi))
    BY DEF Holds
  <1>6. \A i, j \in 1..n : i < j /\ s[i] > 0 /\ s[j] > 0 => s[i] < s[j]
    BY DEF Holds
  <1> HIDE DEF n
  <1>7. \A i \in P : s[i] \in F
    BY <1>1, <1>5
  <1>8. \A i, j \in P : s[i] = s[j] => i = j
    BY <1>1, <1>6
  <1>9. \A p \in F : \E i \in P : s[i] = p
    BY <1>1, <1>5
  <1>10. f \in Bijection(P, F)
    BY <1>7, <1>8, <1>9 DEF Bijection, Injection, Surjection, IsInjective
  <1>11. Cardinality(F) = Cardinality(P)
    BY <1>3, <1>10, FS_Bijection DEF ExistsBijection
  <1> QED BY <1>3, <1>4, <1>11 DEF n

LEMMA FramesFit ==
  ASSUME NEW s \in Seq(Int), NEW lo \in Nat, NEW hi \in Nat, lo <= hi, Holds(s, lo, hi)
  PROVE  hi - lo <= Len(s)
  <1> DEFINE P == {i \in 1..Len(s) : s[i] > 0}
  <1>1. Len(s) \in Nat
    BY LenProperties
  <1>2. IsFiniteSet(1..Len(s)) /\ Cardinality(1..Len(s)) = Len(s)
    BY <1>1, IndexCount
  <1>3. Cardinality(P) <= Cardinality(1..Len(s))
    BY <1>2, FS_Subset
  <1>4. Cardinality(P) = hi - lo
    BY FramesHeld
  <1> QED BY <1>2, <1>3, <1>4

(* All buffers but the one at k hold frames. *)
LEMMA FramesFill ==
  ASSUME NEW s \in Seq(Int), NEW lo \in Nat, NEW hi \in Nat, lo <= hi, Holds(s, lo, hi),
         NEW k \in Int, \A i \in 1..Len(s) : i # k => s[i] > 0
  PROVE  Len(s) <= hi - lo + 1 /\ (k \notin 1..Len(s) => Len(s) <= hi - lo)
  <1> DEFINE P == {i \in 1..Len(s) : s[i] > 0}
             Q == (1..Len(s)) \ {k}
  <1>1. Len(s) \in Nat
    BY LenProperties
  <1>2. IsFiniteSet(1..Len(s)) /\ Cardinality(1..Len(s)) = Len(s)
    BY <1>1, IndexCount
  <1>3. Cardinality(Q) = IF k \in 1..Len(s) THEN Len(s) - 1 ELSE Len(s)
    BY <1>2, FS_RemoveElement
  <1>4. Q \subseteq P
    OBVIOUS
  <1>5. IsFiniteSet(P) /\ Cardinality(P) = hi - lo
    BY FramesHeld
  <1>6. Cardinality(Q) <= Cardinality(P)
    BY <1>4, <1>5, FS_Subset
  <1> QED BY <1>1, <1>3, <1>5, <1>6

(* The marks in the queues: the codec-config buffer is in the output at    *)
(* most once, and only until it is captured; outside a Flush, a codec fed  *)
(* with CPU frames holds no end-of-stream flag.                            *)
Marks ==
    /\ \A i, j \in 1..Len(output) : output[i] = Blank /\ output[j] = Blank => i = j
    /\ \A i \in 1..Len(output) : output[i] = Blank => config = "due"
    /\ ~SurfaceMode /\ call # "Flush" =>
          /\ \A i \in 1..Len(input) : input[i] >= 0
          /\ \A i \in 1..Len(output) : output[i] >= 0

ConfigRoom == IF config = "due" THEN 1 ELSE 0
EncodeRoom == IF call = "Encode" THEN 1 ELSE 0

(* A codec fed with CPU frames always has a buffer for one frame more than *)
(* it holds, and for the codec-config, while it owes that; only an Encode  *)
(* on its way to the drain takes that buffer.                              *)
Room ==
    codec = "running" /\ ~SurfaceMode =>
        taken - coded + ConfigRoom < InputSlots + OutputSlots + EncodeRoom

LEMMA MarksStay ==
  ASSUME Marks, UNCHANGED <<request, input, output, config>>,
         call = "Flush" => call' = "Flush" \/ SurfaceMode
  PROVE  Marks'
  BY DEF Marks, SurfaceMode

LEMMA MarksOfNone == ASSUME input' = <<>>, output' = <<>>  PROVE Marks'
  <1>1. Len(<<>>) = 0 /\ 1..0 = {}
    BY EmptySeq
  <1>2. 1..Len(input') = {} /\ 1..Len(output') = {}
    BY <1>1
  <1> QED BY <1>2 DEF Marks

LEMMA MarksInput ==
  ASSUME IInv, Marks, NEW x \in Int, input' = Append(input, x), UNCHANGED <<request, output, config>>,
         call = "Flush" => call' = "Flush" \/ SurfaceMode,
         x >= 0 \/ call' = "Flush" \/ SurfaceMode
  PROVE  Marks'
  <1>1. /\ Len(input) \in Nat /\ Len(input') = Len(input) + 1
        /\ \A i \in 1..Len(input) : input'[i] = input[i]
        /\ input'[Len(input) + 1] = x
    BY AppendProperties, LenProperties DEF IInv, Buffers
  <1>2. ~SurfaceMode /\ call' # "Flush" => \A i \in 1..Len(input') : input'[i] >= 0
    BY <1>1 DEF Marks
  <1> QED BY <1>2 DEF Marks, SurfaceMode

LEMMA MarksOutputTail ==
  ASSUME IInv, Marks, output # <<>>, output' = Tail(output), UNCHANGED <<request, input>>,
         call = "Flush" => call' = "Flush" \/ SurfaceMode,
         config' = config \/ Head(output) = Blank
  PROVE  Marks'
  <1>1. /\ Len(output) \in Nat /\ Len(output') = Len(output) - 1 /\ Head(output) = output[1]
        /\ \A i \in 1..(Len(output) - 1) : output'[i] = output[i + 1]
    BY TailOf DEF IInv, Buffers
  <1>2. \A i \in 1..Len(output') : i + 1 \in 1..Len(output) /\ output'[i] = output[i + 1]
    BY <1>1
  <1>3. \A i, j \in 1..Len(output') : output'[i] = Blank /\ output'[j] = Blank => i = j
    BY <1>1, <1>2 DEF Marks
  <1>4. ASSUME NEW i \in 1..Len(output'), output'[i] = Blank  PROVE config' = "due"
    <2>1. i + 1 \in 1..Len(output) /\ output[i + 1] = Blank /\ 1 \in 1..Len(output) /\ i + 1 # 1
      BY <1>1, <1>2, <1>4
    <2> QED BY <1>1, <2>1 DEF Marks
  <1>5. ~SurfaceMode /\ call' # "Flush" => \A i \in 1..Len(output') : output'[i] >= 0
    BY <1>1, <1>2 DEF Marks
  <1>6. ~SurfaceMode /\ call' # "Flush" => \A i \in 1..Len(input') : input'[i] >= 0
    BY DEF Marks
  <1> QED BY <1>3, <1>4, <1>5, <1>6 DEF Marks, SurfaceMode

LEMMA MarksOutputAppend ==
  ASSUME IInv, Marks, NEW x \in Int, output' = Append(output, x), UNCHANGED <<request, config, call>>,
         x = Blank => config = "due" /\ ~\E i \in DOMAIN output : output[i] = Blank,
         x >= 0 \/ call = "Flush" \/ SurfaceMode
  PROVE  /\ \A i, j \in 1..Len(output') : output'[i] = Blank /\ output'[j] = Blank => i = j
         /\ \A i \in 1..Len(output') : output'[i] = Blank => config' = "due"
         /\ ~SurfaceMode /\ call # "Flush" => \A i \in 1..Len(output') : output'[i] >= 0
  <1>1. /\ Len(output) \in Nat /\ Len(output') = Len(output) + 1
        /\ DOMAIN output = 1..Len(output)
        /\ \A i \in 1..Len(output) : output'[i] = output[i]
        /\ output'[Len(output) + 1] = x
    BY AppendProperties, LenProperties DEF IInv, Buffers
  <1>2. \A i \in 1..Len(output') : i \in 1..Len(output) \/ i = Len(output) + 1
    BY <1>1
  <1>3. ASSUME NEW i \in 1..Len(output'), NEW j \in 1..Len(output'),
               output'[i] = Blank, output'[j] = Blank
        PROVE  i = j
    BY <1>1, <1>2, <1>3 DEF Marks
  <1>4. \A i \in 1..Len(output') : output'[i] = Blank => config' = "due"
    BY <1>1, <1>2 DEF Marks
  <1>5. ~SurfaceMode /\ call # "Flush" => \A i \in 1..Len(output') : output'[i] >= 0
    BY <1>1, <1>2 DEF Marks
  <1> QED BY <1>3, <1>4, <1>5

LEMMA HardwareMarks == ASSUME IInv, Marks, AndroidHw \/ AndroidBreaks  PROVE Marks'
  <1> USE DEF HwRuns, objVars
  <1>1. ASSUME input # <<>>, input' = Tail(input)
        PROVE  /\ \A i \in 1..Len(input') : input'[i] = input[i + 1] /\ i + 1 \in 1..Len(input)
               /\ Head(input) = input[1] /\ Head(input) \in Int /\ 1 \in 1..Len(input)
    BY <1>1, TailOf DEF IInv, Buffers
  <1>2. CASE HwEmitsConfig
    <2>1. Blank \in Int /\ Blank >= 0
      BY DEF Blank
    <2> QED BY <1>2, <2>1, MarksOutputAppend DEF HwEmitsConfig, Marks, SurfaceMode
  <1>3. CASE HwEncodes
    <2>1. Head(input) # Blank /\ Head(input) >= 0 /\ Head(input) \in Int
      BY <1>1, <1>3 DEF HwEncodes, Blank
    <2>2. /\ output' = Append(output, Head(input)) /\ UNCHANGED <<request, config, call>>
      BY <1>3 DEF HwEncodes
    <2>3. \A i \in 1..Len(input') : input'[i] = input[i + 1] /\ i + 1 \in 1..Len(input)
      BY <1>1, <1>3 DEF HwEncodes
    <2> QED BY <2>1, <2>2, <2>3, MarksOutputAppend DEF Marks, SurfaceMode
  <1>4. CASE HwSkipsBlank
    <2>1. UNCHANGED <<request, config, call, output>>
      BY <1>4 DEF HwSkipsBlank
    <2>2. \A i \in 1..Len(input') : input'[i] = input[i + 1] /\ i + 1 \in 1..Len(input)
      BY <1>1, <1>4 DEF HwSkipsBlank
    <2> QED BY <2>1, <2>2 DEF Marks, SurfaceMode
  <1>5. CASE HwEndsStream
    <2>1. EndOfStream \in Int /\ EndOfStream # Blank /\ ~(EndOfStream >= 0)
      BY DEF EndOfStream, Blank
    <2>2. call = "Flush" \/ SurfaceMode
      BY <1>1, <1>5, <2>1 DEF HwEndsStream, Marks
    <2>3. UNCHANGED <<request, config, call>> /\ output' \in {output, Append(output, EndOfStream)}
      BY <1>5 DEF HwEndsStream
    <2> QED BY <2>1, <2>2, <2>3, MarksOutputAppend DEF Marks, SurfaceMode
  <1>6. CASE HwFails
    BY <1>6, MarksStay DEF HwFails
  <1> QED BY <1>2, <1>3, <1>4, <1>5, <1>6 DEF AndroidHw, AndroidBreaks, Hardware

(* A call is made when none is in progress, a frame drawn also in a Poll.  *)
LEMMA CallsStart ==
  ASSUME AndroidCall
  PROVE  call = "none" \/ (call = "Poll" /\ SurfaceDraw)
  BY DEF AndroidCall, McCall, McInitRejected, McInitFails, McInit, McEncodeRejected,
     McEncodeFails, McEncode, McPollRejected, McPoll, McFlushRejected, McFlush,
     McFlushNoCodec, McRelease, SurfaceDraw, Idle

LEMMA AndroidCallMarks == ASSUME IInv, Marks, AndroidCall  PROVE Marks'
  <1> USE DEF hwVars, objVars, frameVars
  <1>0. call # "Flush"
    BY CallsStart
  <1>1. CASE UNCHANGED <<request, input, output, config>>
    BY <1>0, <1>1, MarksStay
  <1>2. CASE NoCodec \/ McInit
    BY <1>2, MarksOfNone DEF NoCodec, McInit
  <1>3. CASE McEncode \/ SurfaceDraw
    <2>1. taken + 1 \in Int /\ taken + 1 >= 0
      BY DEF IInv, Numbers, Types
    <2>2. input' = Append(input, taken + 1) /\ UNCHANGED <<request, output, config>>
      BY <1>3 DEF McEncode, SurfaceDraw
    <2> QED BY <1>0, <2>1, <2>2, MarksInput
  <1>4. CASE McEncodeFails
    <2>1. Blank \in Int /\ Blank >= 0
      BY DEF Blank
    <2>2. UNCHANGED <<request, output, config>> /\ input' \in {input, Append(input, Blank)}
      BY <1>4 DEF McEncodeFails
    <2> QED BY <1>0, <1>1, <2>1, <2>2, MarksInput
  <1>5. CASE McFlush
    <2>1. EndOfStream \in Int
      BY DEF EndOfStream
    <2>2. /\ UNCHANGED <<request, output, config>>
          /\ UNCHANGED input \/ (SurfaceMode /\ input' = Append(input, EndOfStream))
      BY <1>5 DEF McFlush, WithEndOfStream
    <2> QED BY <1>0, <1>1, <2>1, <2>2, MarksInput
  <1>6. CASE McInitFails \/ McRelease
    BY <1>1, <1>2, <1>6 DEF McInitFails, McRelease, Refuse, McUnchanged
  <1>7. CASE \/ McInitRejected \/ McEncodeRejected \/ McPollRejected \/ McPoll
             \/ McFlushRejected \/ McFlushNoCodec
    BY <1>1, <1>7 DEF McInitRejected, McEncodeRejected, McPollRejected, McPoll,
       McFlushRejected, McFlushNoCodec, Refuse, McUnchanged
  <1> QED BY <1>2, <1>3, <1>4, <1>5, <1>6, <1>7 DEF AndroidCall, McCall

LEMMA AndroidDrainMarks == ASSUME IInv, Marks, AndroidDrain  PROVE Marks'
  <1> USE DEF hwVars, objVars, frameVars
  <1>1. CASE McFlushInput
    <2>1. EndOfStream \in Int
      BY DEF EndOfStream
    <2>2. /\ UNCHANGED <<request, output, config>> /\ call = "FlushInput" /\ call' = "Flush"
          /\ input' \in {input, Append(input, EndOfStream)}
      BY <1>1 DEF McFlushInput
    <2> QED BY <2>1, <2>2, MarksInput, MarksStay
  <1>2. CASE McDrainPacket \/ McDrainConfig
    <2>1. /\ output # <<>> /\ output' = Tail(output)
          /\ UNCHANGED <<request, input, call>>
          /\ config' = config \/ Head(output) = Blank
      BY <1>2 DEF McDrainPacket, McDrainConfig, McDraining, HandOver
    <2> QED BY <2>1, MarksOutputTail
  <1>3. ASSUME NEW st, NEW gone, McReturn(st, gone), call = "Flush" /\ ~SurfaceMode  PROVE Marks'
    BY <1>3, MarksOfNone DEF McReturn
  <1>4. CASE McDrainRefused \/ McDrainEos
    <2>1. /\ output # <<>> /\ UNCHANGED request
          /\ config' = config
          /\ \E st, gone : McReturn(st, gone)
          /\ call # "Flush" \/ SurfaceMode => output' = Tail(output) /\ UNCHANGED input
      BY <1>4 DEF McDrainRefused, McDrainEos, McDraining
    <2> QED BY <1>3, <2>1, MarksOutputTail
  <1>5. CASE McDrainEmpty \/ McDrainFails
    <2>1. /\ UNCHANGED <<request, config>>
          /\ \E st, gone : McReturn(st, gone)
          /\ call # "Flush" \/ SurfaceMode => UNCHANGED <<input, output>>
      BY <1>5 DEF McDrainEmpty, McDrainFails, McDraining
    <2> QED BY <1>3, <2>1, MarksStay
  <1>6. CASE DeadlinePasses
    BY <1>6, MarksStay DEF DeadlinePasses
  <1> QED BY <1>1, <1>2, <1>4, <1>5, <1>6 DEF AndroidDrain, McDrain

LEMMA MarksStep == ASSUME IInv, Marks, [Next]_vars  PROVE Marks'
  <1> USE DEF hwVars, objVars, frameVars
  <1>1. ASSUME codec = "none", UNCHANGED <<input, output>>  PROVE Marks'
    BY <1>1, MarksOfNone DEF IInv, Buffers
  <1>2. CASE FFmpegCall \/ FFmpegDrain
    BY <1>1, <1>2 DEF FFmpegCall, FFmpegDrain, McUnchanged, IInv, Numbers, Stages
  <1>3. CASE Create \/ CreateWithSink \/ CreateWithSinkFails
    BY <1>1, <1>3 DEF Create, CreateWithSink, CreateWithSinkFails, IInv, Numbers, Stages
  <1>4. CASE Attach
    BY <1>4, MarksStay DEF Attach, SetOutputSink, Idle
  <1>5. CASE UNCHANGED vars
    BY <1>5, MarksStay DEF vars
  <1> QED
    BY <1>2, <1>3, <1>4, <1>5, AndroidCallMarks, AndroidDrainMarks, HardwareMarks DEF Next, Crashed

(* The numbers Room is about are numbers. *)
LEMMA RoomTypes ==
  ASSUME Types
  PROVE  /\ taken \in Nat /\ coded \in Nat /\ InputSlots \in Nat \ {0} /\ OutputSlots \in Nat \ {0}
         /\ ConfigRoom \in {0, 1} /\ EncodeRoom \in {0, 1}
  BY SlotAssumption DEF Types, ConfigRoom, EncodeRoom

(* A codec that holds no frame has room. *)
LEMMA RoomOfNone == ASSUME Types', OutputSlots >= 2, coded' = taken'  PROVE Room'
  <1>1. ConfigRoom' \in {0, 1} /\ EncodeRoom' \in {0, 1}
    BY DEF ConfigRoom, EncodeRoom
  <1>2. taken' \in Nat /\ coded' \in Nat
    BY DEF Types
  <1>3. taken' - coded' = 0
    <2>1. \A n \in Nat : n - n = 0
      OBVIOUS
    <2> QED BY <1>2, <2>1
  <1>4. taken' - coded' + ConfigRoom' < InputSlots + OutputSlots + EncodeRoom'
    BY <1>1, <1>3, SlotAssumption
  <1> QED BY <1>4 DEF Room

LEMMA RoomStays ==
  ASSUME Types, Types', Room, UNCHANGED <<request, taken>>, codec' = "running" => codec = "running",
         config' = "due" => config = "due",
         \/ coded' = coded /\ call' = call
         \/ coded' = coded /\ call # "Encode"
         \/ coded' = coded + 1
  PROVE  Room'
  <1>1. ConfigRoom' <= ConfigRoom
    BY DEF ConfigRoom
  <1>2. EncodeRoom' = EncodeRoom \/ EncodeRoom = 0 \/ coded' = coded + 1
    BY DEF EncodeRoom
  <1>3. ConfigRoom' \in {0, 1} /\ EncodeRoom' \in {0, 1}
    BY DEF ConfigRoom, EncodeRoom
  <1> HIDE DEF ConfigRoom
  <1> QED BY <1>1, <1>2, <1>3, RoomTypes DEF Room, SurfaceMode, Types

LEMMA AndroidCallRoom == ASSUME IInv, Types', Room, OutputSlots >= 2, AndroidCall  PROVE Room'
  <1> USE DEF hwVars, objVars, frameVars
  <1>0. call # "Encode" /\ Types
    BY CallsStart DEF IInv, Numbers
  <1>1. CASE UNCHANGED <<request, taken, coded, codec, config>>
    BY <1>0, <1>1, RoomStays
  <1>2. CASE NoCodec \/ SurfaceDraw
    BY <1>2 DEF NoCodec, SurfaceDraw, Room, SurfaceMode
  <1>3. CASE McInit
    BY <1>3, RoomOfNone DEF McInit, CodecReplaced
  <1>4. CASE McEncode
    <2>1. /\ taken' = taken + 1 /\ call' = "Encode"
          /\ UNCHANGED <<request, coded, codec, config>>
      BY <1>4 DEF McEncode
    <2>2. EncodeRoom = 0 /\ EncodeRoom' = 1 /\ ConfigRoom' = ConfigRoom
      BY <1>0, <2>1 DEF EncodeRoom, ConfigRoom
    <2> QED BY <1>0, <2>1, <2>2, RoomTypes DEF Room, SurfaceMode
  <1>5. CASE McInitFails \/ McRelease
    BY <1>1, <1>2, <1>5 DEF McInitFails, McRelease, Refuse, McUnchanged
  <1>6. CASE \/ McInitRejected \/ McEncodeRejected \/ McEncodeFails
             \/ McPollRejected \/ McPoll \/ McFlushRejected \/ McFlush \/ McFlushNoCodec
    BY <1>1, <1>6 DEF McInitRejected, McEncodeRejected, McEncodeFails, McPollRejected, McPoll,
       McFlushRejected, McFlush, McFlushNoCodec, Refuse, McUnchanged
  <1> QED BY <1>2, <1>3, <1>4, <1>5, <1>6 DEF AndroidCall, McCall

LEMMA AndroidDrainRoom == ASSUME IInv, Types', Room, OutputSlots >= 2, AndroidDrain  PROVE Room'
  <1> USE DEF hwVars, objVars, frameVars
  <1>0. Types
    BY DEF IInv, Numbers
  <1>1. ASSUME NEW st, NEW gone, McReturn(st, gone), UNCHANGED taken
        PROVE  (call = "Flush" /\ ~SurfaceMode => Room') /\ (call # "Flush" => coded' = gone)
    BY <1>1, RoomOfNone DEF McReturn
  <1>2. CASE McFlushInput
    <2>1. UNCHANGED <<request, taken, coded, codec, config>> /\ call # "Encode"
      BY <1>2 DEF McFlushInput
    <2> QED BY <1>0, <2>1, RoomStays
  <1>3. CASE McDrainPacket
    <2>1. Head(output) = coded + 1
      BY <1>3, NextFrame DEF McDrainPacket
    <2>2. UNCHANGED <<request, taken, codec>> /\ coded' = coded + 1 /\ (config' = "due" => config = "due")
      BY <1>3, <2>1 DEF McDrainPacket, McDraining, HandOver
    <2> QED BY <1>0, <2>2, RoomStays
  <1>4. CASE McDrainRefused
    <2>1. Head(output) = coded + 1
      BY <1>4, NextFrame DEF McDrainRefused
    <2>2. /\ UNCHANGED <<request, taken, codec>> /\ McReturn("kEncodeFailed", coded + 1)
          /\ config' = "due" => config = "due"
      BY <1>4, <2>1 DEF McDrainRefused, McDraining
    <2>3. CASE SurfaceMode
      BY <2>2, <2>3 DEF Room, SurfaceMode
    <2> QED BY <1>0, <1>1, <2>2, <2>3, RoomStays
  <1>5. CASE McDrainConfig
    <2>1. UNCHANGED <<request, taken, coded, codec, call>> /\ config' # "due"
      BY <1>5 DEF McDrainConfig, McDraining
    <2> QED BY <1>0, <2>1, RoomStays
  <1>6. CASE McDrainEos
    BY <1>1, <1>6 DEF McDrainEos, McDraining, Room, SurfaceMode
  <1>7. CASE McDrainEmpty
    <2>1. /\ UNCHANGED <<request, taken, config>> /\ codec = "running" /\ output = <<>>
          /\ McReturn("kOk", coded)
      BY <1>7 DEF McDrainEmpty, McDraining
    <2>2. CASE call # "Flush" /\ ~SurfaceMode
      <3>1. PICK mid \in Nat : /\ coded <= mid /\ mid <= taken
                               /\ Holds(output, coded, mid) /\ Holds(input, mid, taken)
        BY <2>1 DEF IInv, Pipeline
      <3>2. Len(output) = 0 /\ input \in Seq(Int) /\ output \in Seq(Int)
        BY <2>1, EmptySeq DEF IInv, Buffers
      <3>3. mid - coded <= 0 /\ taken - mid <= Len(input)
        BY <1>0, <3>1, <3>2, FramesFit DEF Types
      <3>4. Len(input) <= InputSlots
        BY <2>2, <3>2, LenProperties, SlotAssumption DEF IInv, Buffers
      <3>5. coded' = coded
        BY <1>1, <2>1, <2>2
      <3>6. Len(input) \in Nat
        BY <3>2, LenProperties
      <3>7. taken - coded <= InputSlots
        BY <1>0, <3>1, <3>3, <3>4, <3>6, SlotAssumption DEF Types
      <3>8. ConfigRoom' \in {0, 1} /\ EncodeRoom' \in {0, 1}
        BY DEF ConfigRoom, EncodeRoom
      <3>9. taken' - coded' <= InputSlots /\ taken' - coded' \in Int
        BY <1>0, <2>1, <3>5, <3>7 DEF Types
      <3>10. taken' - coded' + ConfigRoom' < InputSlots + OutputSlots + EncodeRoom'
        BY <3>8, <3>9, SlotAssumption
      <3> QED BY <3>10 DEF Room
    <2>3. CASE SurfaceMode
      BY <2>1, <2>3 DEF Room, SurfaceMode
    <2> QED BY <1>1, <2>1, <2>2, <2>3
  <1>8. CASE McDrainFails
    BY <1>8 DEF McDrainFails, Room
  <1>9. CASE DeadlinePasses
    BY <1>0, <1>9, RoomStays DEF DeadlinePasses
  <1> QED BY <1>2, <1>3, <1>4, <1>5, <1>6, <1>7, <1>8, <1>9 DEF AndroidDrain, McDrain

LEMMA RoomStep == ASSUME IInv, Types', Room, OutputSlots >= 2, [Next]_vars  PROVE Room'
  <1> USE DEF hwVars, objVars, frameVars
  <1>0. Types
    BY DEF IInv, Numbers
  <1>1. CASE FFmpegCall \/ FFmpegDrain
    BY <1>1 DEF FFmpegCall, FFmpegDrain, McUnchanged, IInv, Numbers, Stages, Room
  <1>2. CASE Create \/ CreateWithSink \/ CreateWithSinkFails
    <2>1. life = "kCreated" /\ UNCHANGED <<taken, coded>>
      BY <1>2 DEF Create, CreateWithSink, CreateWithSinkFails, IInv, Numbers, Stages
    <2>2. taken = coded
      BY <1>0, <2>1 DEF IInv, Numbers, Stages, Counters, Types
    <2> QED BY <2>1, <2>2, RoomOfNone
  <1>3. CASE Attach
    <2>1. UNCHANGED <<request, taken, coded, codec, config>> /\ call # "Encode"
      BY <1>3 DEF Attach, SetOutputSink, Idle
    <2> QED BY <1>0, <2>1, RoomStays
  <1>4. CASE AndroidHw \/ AndroidBreaks
    <2>1. UNCHANGED <<request, taken, coded, call, config>> /\ codec = "running"
      BY <1>4 DEF AndroidHw, AndroidBreaks, Hardware, HwEmitsConfig, HwEncodes,
         HwSkipsBlank, HwEndsStream, HwFails, HwRuns
    <2> QED BY <1>0, <2>1, RoomStays
  <1>5. CASE UNCHANGED vars
    BY <1>0, <1>5, RoomStays DEF vars
  <1> QED
    BY <1>1, <1>2, <1>3, <1>4, <1>5, AndroidCallRoom, AndroidDrainRoom DEF Next, Crashed

(* A codec with all its buffers in use and no blank one among the input's  *)
(* holds as many frames as buffers, but one if it owes the codec-config.   *)
LEMMA FullIsFull == ASSUME IInv, Marks, Room  PROVE NeverWedged
  <1> SUFFICES ASSUME Wedged, \A i \in DOMAIN input : input[i] # Blank
               PROVE  FALSE
    BY DEF NeverWedged
  <1>1. PICK mid \in Nat : /\ coded <= mid /\ mid <= taken
                           /\ Holds(output, coded, mid) /\ Holds(input, mid, taken)
    BY DEF Wedged, IInv, Pipeline
  <1>2. /\ taken \in Nat /\ coded \in Nat /\ input \in Seq(Int) /\ output \in Seq(Int)
        /\ Len(input) = InputSlots /\ Len(output) = OutputSlots
        /\ \A i \in 1..Len(input) : input[i] \in Int
        /\ \A i \in 1..Len(output) : output[i] \in Int
        /\ DOMAIN input = 1..Len(input)
    BY LenProperties, ElementOfSeq DEF Wedged, IInv, Numbers, Types, Buffers
  <1>3. /\ \A i \in 1..Len(input) : input[i] >= 0
        /\ \A i \in 1..Len(output) : output[i] >= 0
    BY DEF Wedged, Marks
  <1>4. \A i \in 1..Len(input) : input[i] > 0
    BY <1>2, <1>3 DEF Blank
  <1>5. Len(input) <= taken - mid
    <2>1. 0 \in Int /\ 0 \notin 1..Len(input)
      BY <1>2
    <2> QED BY <1>1, <1>2, <1>4, <2>1, FramesFill
  <1>6. Len(output) <= mid - coded + ConfigRoom
    <2>1. CASE \E k \in 1..Len(output) : output[k] = Blank
      <3>1. PICK k \in 1..Len(output) : output[k] = Blank
        BY <2>1
      <3>2. \A i \in 1..Len(output) : i # k => output[i] # Blank
        BY <3>1 DEF Marks
      <3>3. \A i \in 1..Len(output) : i # k => output[i] > 0
        BY <1>2, <1>3, <3>2 DEF Blank
      <3>4. ConfigRoom = 1
        BY <3>1 DEF Marks, ConfigRoom
      <3>5. Len(output) <= mid - coded + 1
        <4>1. k \in Int
          OBVIOUS
        <4> QED BY <1>1, <1>2, <3>3, <4>1, FramesFill
      <3>6. mid - coded + 1 = mid - coded + ConfigRoom
        BY <3>4
      <3> QED BY <3>5, <3>6
    <2>2. CASE ~\E k \in 1..Len(output) : output[k] = Blank
      <3>1. \A i \in 1..Len(output) : output[i] > 0
        BY <1>2, <1>3, <2>2 DEF Blank
      <3>2. 0 \in Int /\ 0 \notin 1..Len(output)
        BY <1>2
      <3>3. Len(output) <= mid - coded
        BY <1>1, <1>2, <3>1, <3>2, FramesFill
      <3> QED BY <1>1, <1>2, <3>3, SlotAssumption DEF ConfigRoom
    <2> QED BY <2>1, <2>2
  <1>7. ConfigRoom \in {0, 1} /\ EncodeRoom = 0
    BY DEF ConfigRoom, EncodeRoom, Wedged
  <1>8. taken - coded + ConfigRoom < InputSlots + OutputSlots
    BY <1>7, SlotAssumption, <1>2 DEF Wedged, Room
  <1> QED BY <1>1, <1>2, <1>5, <1>6, <1>7, <1>8, SlotAssumption

(* Fed with CPU frames that fit its buffers, a codec with two output       *)
(* buffers or more is never left, between calls, with every buffer in use: *)
(* Encode, which drains the codec only after it found an input buffer      *)
(* (mediacodec_video.cc:113-178), cannot lock itself out.                  *)
THEOREM NeverLocksUp == ASSUME OutputSlots >= 2  PROVE Spec => []NeverWedged
  <1> DEFINE Inv == IInv /\ Marks /\ Room
  <1>1. Init => Inv
    <2> SUFFICES ASSUME Init PROVE Inv
      OBVIOUS
    <2>1. Len(<<>>) = 0 /\ 1..0 = {}
      BY EmptySeq
    <2>2. 1..Len(input) = {} /\ 1..Len(output) = {} /\ codec = "none"
      BY <2>1 DEF Init
    <2> QED BY <2>2, InvInit DEF Marks, Room
  <1>2. Inv /\ [Next]_vars => Inv'
    <2> SUFFICES ASSUME Inv, [Next]_vars PROVE Inv'
      OBVIOUS
    <2>1. IInv'
      BY InvStep
    <2>2. Types'
      BY <2>1 DEF IInv, Numbers
    <2>3. Marks' /\ Room'
      BY <2>2, MarksStep, RoomStep
    <2> QED BY <2>1, <2>3
  <1>3. Inv => NeverWedged
    BY FullIsFull
  <1> HIDE DEF Inv
  <1> QED BY <1>1, <1>2, <1>3, PTL DEF Spec

-----------------------------------------------------------------------------
(* The work of a call. *)

ConfigOut == \E i \in DOMAIN output : output[i] = Blank

ConfigOwed == IF config = "due" /\ ~ConfigOut THEN 2 ELSE 0

(* What is left of a call in progress: the packets libavcodec may yet      *)
(* give; or the buffers the hardware may yet turn over and the drain may   *)
(* yet take, each input once by either, the codec-config that goes before  *)
(* them, the flag, the deadline, the codec's own failure, and the frames   *)
(* the application may yet draw.  A call that ended the process is over.   *)
FramesWork == 3 * (MaxFrames - taken)

AndroidWork ==
    FramesWork
      + 1 + (IF call = "FlushInput" THEN 3 ELSE 0) + (IF late THEN 0 ELSE 1)
      + (IF codec = "running" THEN 1 ELSE 0)
      + 2 * Len(input) + Len(output) + ConfigOwed

CallWork ==
    IF ~Running THEN 0
    ELSE IF backend = "kFFmpeg" THEN 1 + (taken - coded)
    ELSE AndroidWork

(* The work is a number, and a call in progress always has some.           *)
LEMMA WorkIsNumber ==
  ASSUME IInv
  PROVE  /\ CallWork \in Nat /\ (Running => CallWork > 0)
         /\ Len(input) \in Nat /\ Len(output) \in Nat /\ ConfigOwed \in {0, 2}
  <1>1. Len(input) \in Nat /\ Len(output) \in Nat
    BY LenProperties DEF IInv, Buffers
  <1>2. taken \in Nat /\ coded \in Nat /\ coded <= taken
    BY DEF IInv, Numbers, Types, Counters
  <1>3. ConfigOwed \in {0, 2}
    BY DEF ConfigOwed
  <1>4. FramesWork \in Nat
    BY <1>2, EncoderAssumption DEF FramesWork, IInv, Numbers, Counters
  <1>5. AndroidWork \in Nat /\ AndroidWork > 0
    BY <1>1, <1>3, <1>4 DEF AndroidWork
  <1> QED BY <1>1, <1>2, <1>3, <1>5 DEF CallWork

(* A call in progress is a drain of a backend that has an encoder.         *)
LEMMA CallHasBackend ==
  ASSUME IInv, Running
  PROVE  (backend = "kFFmpeg" /\ codec = "none") \/ backend = "kAndroid"
  BY DEF IInv, Numbers, Types, Stages, Running

(* Only a drain, the hardware, the deadline or the application's drawing   *)
(* steps while a call goes on.                                             *)
LEMMA StepsOfCall ==
  ASSUME IInv, Running, Next
  PROVE  \/ backend = "kFFmpeg" /\ FfDrain
         \/ backend = "kAndroid" /\ (McFlushInput \/ McDrain \/ DeadlinePasses)
         \/ backend = "kAndroid" /\ (Hardware \/ HwFails)
         \/ backend = "kAndroid" /\ call = "Poll" /\ SurfaceDraw
  <1> USE DEF Running
  <1>1. ~(Create \/ CreateWithSink \/ CreateWithSinkFails \/ Attach)
    BY CallHasBackend DEF Create, CreateWithSink, CreateWithSinkFails, Attach, SetOutputSink, Idle
  <1>2. ~FFmpegCall
    BY DEF FFmpegCall, FfCall, FfInitRejected, FfInitFails, FfInit, FfEncodeRejected,
       FfEncodeUnfit, FfEncode, FfFlushRejected, FfFlush, FfFlushNoCodec, FfRelease, Idle
  <1>3. AndroidCall => backend = "kAndroid" /\ call = "Poll" /\ SurfaceDraw
    BY CallsStart DEF AndroidCall
  <1>4. Hardware \/ HwFails => codec = "running"
    BY DEF Hardware, HwFails, HwEmitsConfig, HwEncodes, HwSkipsBlank, HwEndsStream, HwRuns
  <1> QED
    BY <1>1, <1>2, <1>3, <1>4, CallHasBackend
    DEF Next, FFmpegDrain, AndroidDrain, AndroidHw, AndroidBreaks, Crashed

(* A codec-config buffer in the output stays there when another is taken   *)
(* from it or added to it.                                                 *)
LEMMA ConfigStaysOut ==
  ASSUME IInv, ConfigOut,
         \/ UNCHANGED output
         \/ output # <<>> /\ Head(output) # Blank /\ output' = Tail(output)
         \/ \E x \in Int : output' = Append(output, x)
  PROVE  ConfigOut'
  <1>0. output \in Seq(Int) /\ DOMAIN output = 1..Len(output)
    BY LenProperties DEF IInv, Buffers
  <1>1. PICK i \in 1..Len(output) : output[i] = Blank
    BY <1>0 DEF ConfigOut
  <1>2. CASE UNCHANGED output
    BY <1>2 DEF ConfigOut
  <1>3. CASE output # <<>> /\ Head(output) # Blank /\ output' = Tail(output)
    <2>1. /\ Len(output) \in Nat /\ Head(output) = output[1]
          /\ DOMAIN output' = 1..(Len(output) - 1)
          /\ \A j \in 1..(Len(output) - 1) : output'[j] = output[j + 1]
      BY <1>0, <1>3, TailOf, LenProperties
    <2>2. i # 1
      BY <1>1, <1>3, <2>1
    <2>3. i - 1 \in 1..(Len(output) - 1) /\ output'[i - 1] = Blank
      BY <1>1, <2>1, <2>2
    <2> QED BY <2>1, <2>3 DEF ConfigOut
  <1>4. ASSUME NEW x \in Int, output' = Append(output, x)  PROVE ConfigOut'
    <2>0. /\ output' \in Seq(Int) /\ Len(output') = Len(output) + 1
          /\ \A j \in 1..Len(output) : output'[j] = output[j]
      <3>1. /\ Append(output, x) \in Seq(Int)
            /\ Len(Append(output, x)) = Len(output) + 1
            /\ \A j \in 1..Len(output) : Append(output, x)[j] = output[j]
        BY <1>0, AppendProperties
      <3> QED BY <1>4, <3>1, Zenon
    <2>1. Len(output) \in Nat /\ DOMAIN output' = 1..(Len(output) + 1)
      BY <1>0, <2>0, LenProperties
    <2>2. i \in DOMAIN output' /\ output'[i] = Blank
      BY <1>1, <2>0, <2>1
    <2> QED BY <2>2 DEF ConfigOut
  <1> QED BY <1>2, <1>3, <1>4

LEMMA OwedNoMore ==
  ASSUME ConfigOut => ConfigOut' \/ config' # "due",
         config' = config \/ config' # "due"
  PROVE  ConfigOwed' \in {0, ConfigOwed}
  BY DEF ConfigOwed

(* The drain of an FFmpeg encoder ends, or takes one of the packets.       *)
LEMMA FfDrainWorks ==
  ASSUME IInv, Running, backend = "kFFmpeg", FfDrain
  PROVE  call' = "none" \/ CallWork' < CallWork
  <1> USE DEF IInv, Numbers, Types, Running
  <1>1. CASE FfDrainPacket
    <2>1. /\ coded' = coded + 1 /\ taken' = taken /\ coded < taken
          /\ backend' = "kFFmpeg" /\ call' = call
      BY <1>1 DEF FfDrainPacket, FfDraining, HandOver, objVars
    <2>2. taken' - coded' < taken - coded
      BY <2>1
    <2>3. CallWork = 1 + (taken - coded) /\ CallWork' = 1 + (taken' - coded')
      BY <2>1 DEF CallWork
    <2> QED BY <2>1, <2>2, <2>3
  <1>2. CASE FfDrainRefused \/ FfDrainFails \/ FfDrainEnds
    BY <1>2 DEF FfDrainRefused, FfDrainFails, FfDrainEnds, Return
  <1> QED BY <1>1, <1>2 DEF FfDrain

(* How the codec's steps change the numbers AndroidWork adds up.           *)
LEMMA QueueLengths ==
  ASSUME IInv
  PROVE  /\ Len(input) \in Nat /\ Len(output) \in Nat
         /\ input # <<>> /\ input' = Tail(input) =>
               Len(input') = Len(input) - 1 /\ Head(input) \in Int
         /\ output # <<>> /\ output' = Tail(output) =>
               Len(output') = Len(output) - 1 /\ Head(output) \in Int
         /\ \A x \in Int : input' = Append(input, x) => Len(input') = Len(input) + 1
         /\ \A x \in Int : output' = Append(output, x) => Len(output') = Len(output) + 1
  <1>0. input \in Seq(Int) /\ output \in Seq(Int)
    BY DEF IInv, Buffers
  <1>1. Len(input) \in Nat /\ Len(output) \in Nat
    BY <1>0, LenProperties
  <1>2. ASSUME input # <<>>, input' = Tail(input)
        PROVE  Len(input') = Len(input) - 1 /\ Head(input) \in Int
    BY <1>0, <1>2, TailOf
  <1>3. ASSUME output # <<>>, output' = Tail(output)
        PROVE  Len(output') = Len(output) - 1 /\ Head(output) \in Int
    BY <1>0, <1>3, TailOf
  <1>4. ASSUME NEW x \in Int, input' = Append(input, x)  PROVE Len(input') = Len(input) + 1
    BY <1>0, <1>4, AppendProperties
  <1>5. ASSUME NEW x \in Int, output' = Append(output, x)  PROVE Len(output') = Len(output) + 1
    BY <1>0, <1>5, AppendProperties
  <1> QED BY <1>1, <1>2, <1>3, <1>4, <1>5

(* The frames the application may yet draw, and the rest of the work.      *)
LEMMA FramesLeft ==
  ASSUME IInv
  PROVE  FramesWork \in Nat /\ (taken' = taken => FramesWork' = FramesWork)
  BY EncoderAssumption DEF FramesWork, IInv, Numbers, Types, Counters

(* The flag, a packet, the codec-config or the deadline: each takes work   *)
(* from the call.                                                          *)
LEMMA McDrainWorks ==
  ASSUME IInv, Running, backend = "kAndroid", McFlushInput \/ McDrain \/ DeadlinePasses
  PROVE  call' = "none" \/ CallWork' < CallWork
  <1> USE DEF objVars, hwVars, frameVars, Running
  <1>0. backend' = backend /\ ConfigOwed \in {0, 2} /\ taken' = taken
    BY WorkIsNumber DEF McFlushInput, McDrain, DeadlinePasses, McDrainPacket, McDrainRefused,
       McDrainConfig, McDrainEos, McDrainEmpty, McDrainFails, McDraining, HandOver
  <1>1. CallWork = AndroidWork /\ (Running' => CallWork' = AndroidWork')
    BY <1>0 DEF CallWork
  <1>9. FramesWork \in Nat /\ FramesWork' = FramesWork
    BY <1>0, FramesLeft
  <1>2. CASE McFlushInput
    <2>1. /\ call = "FlushInput" /\ call' = "Flush"
          /\ UNCHANGED <<codec, output, config, late>>
          /\ input' = input \/ input' = Append(input, EndOfStream)
      BY <1>2 DEF McFlushInput
    <2>2. EndOfStream \in Int
      BY DEF EndOfStream
    <2>3. Len(input) \in Nat /\ Len(output) \in Nat /\ Len(input') \in Len(input)..(Len(input) + 1)
      BY <2>1, <2>2, QueueLengths
    <2>4. ConfigOwed' = ConfigOwed /\ Len(output') = Len(output)
      BY <2>1 DEF ConfigOwed, ConfigOut
    <2>5. AndroidWork' < AndroidWork
      BY <1>9, <1>0, <2>1, <2>3, <2>4 DEF AndroidWork
    <2> QED BY <1>1, <2>1, <2>5
  <1>3. CASE McDrainPacket
    <2>1. /\ UNCHANGED <<call, codec, input, late>>
          /\ output # <<>> /\ output' = Tail(output) /\ Head(output) > 0
          /\ config' = config \/ config' # "due"
      BY <1>3 DEF McDrainPacket, McDraining, HandOver
    <2>2. /\ Len(input) \in Nat /\ Len(output) \in Nat /\ Len(output') = Len(output) - 1
          /\ Head(output) \in Int
      BY <2>1, QueueLengths
    <2>3. ConfigOwed' \in {0, ConfigOwed}
      <3>1. Head(output) # Blank
        BY <2>1, <2>2 DEF Blank
      <3>2. ConfigOut => ConfigOut'
        BY <2>1, <3>1, ConfigStaysOut
      <3> QED BY <2>1, <3>2, OwedNoMore
    <2>4. AndroidWork' < AndroidWork
      BY <1>9, <1>0, <2>1, <2>2, <2>3 DEF AndroidWork
    <2> QED BY <1>1, <2>1, <2>4
  <1>4. CASE McDrainConfig
    <2>1. /\ UNCHANGED <<call, codec, input, late>>
          /\ output # <<>> /\ output' = Tail(output) /\ config' = "taken"
      BY <1>4 DEF McDrainConfig, McDraining
    <2>2. Len(input) \in Nat /\ Len(output) \in Nat /\ Len(output') = Len(output) - 1
      BY <2>1, QueueLengths
    <2>3. ConfigOwed' = 0
      BY <2>1 DEF ConfigOwed
    <2>4. AndroidWork' < AndroidWork
      BY <1>9, <1>0, <2>1, <2>2, <2>3 DEF AndroidWork
    <2> QED BY <1>1, <2>1, <2>4
  <1>5. CASE DeadlinePasses
    <2>1. /\ UNCHANGED <<call, codec, input, output, config>>
          /\ ~late /\ late' = TRUE
      BY <1>5 DEF DeadlinePasses
    <2>2. Len(input) \in Nat /\ Len(output) \in Nat
      BY QueueLengths
    <2>3. ConfigOwed' = ConfigOwed
      BY <2>1 DEF ConfigOwed, ConfigOut
    <2>4. AndroidWork' < AndroidWork
      BY <1>9, <1>0, <2>1, <2>2, <2>3 DEF AndroidWork
    <2> QED BY <1>1, <2>1, <2>4
  <1>6. CASE McDrainRefused \/ McDrainEos \/ McDrainEmpty \/ McDrainFails
    BY <1>6 DEF McDrainRefused, McDrainEos, McDrainEmpty, McDrainFails, McReturn, Return
  <1> QED BY <1>2, <1>3, <1>4, <1>5, <1>6 DEF McDrain

(* The hardware's turn takes work too: what it gives the drain is less     *)
(* than what it takes from the input.                                      *)
LEMMA HardwareWorks ==
  ASSUME IInv, Running, backend = "kAndroid", Hardware \/ HwFails
  PROVE  CallWork' < CallWork
  <1>0. /\ ConfigOwed \in {0, 2} /\ codec = "running"
        /\ UNCHANGED <<backend, call, late, config, taken>>
    BY WorkIsNumber DEF Hardware, HwFails, HwEmitsConfig, HwEncodes, HwSkipsBlank,
       HwEndsStream, HwRuns, objVars, frameVars
  <1>1. CallWork = AndroidWork /\ CallWork' = AndroidWork'
    BY <1>0 DEF CallWork, Running
  <1>9. FramesWork \in Nat /\ FramesWork' = FramesWork
    BY <1>0, FramesLeft
  <1>2. Len(input) \in Nat /\ Len(output) \in Nat
    BY QueueLengths
  <1>3. CASE HwEmitsConfig
    <2>1. /\ output' = Append(output, Blank) /\ UNCHANGED <<codec, input>>
          /\ config = "due" /\ ~ConfigOut
      BY <1>3 DEF HwEmitsConfig, ConfigOut
    <2>2. Len(output') = Len(output) + 1 /\ output'[Len(output) + 1] = Blank
          /\ Len(output) + 1 \in DOMAIN output'
      <3>1. output \in Seq(Int) /\ Blank \in Int
        BY DEF IInv, Buffers, Blank
      <3> QED BY <1>2, <2>1, <3>1, AppendProperties, LenProperties
    <2>3. ConfigOwed = 2 /\ ConfigOwed' = 0
      BY <2>1, <2>2 DEF ConfigOwed, ConfigOut
    <2>4. AndroidWork' < AndroidWork
      BY <1>9, <1>0, <1>2, <2>1, <2>2, <2>3 DEF AndroidWork
    <2> QED BY <1>1, <2>4
  <1>4. CASE HwEncodes \/ HwSkipsBlank \/ HwEndsStream
    <2>1. /\ input # <<>> /\ input' = Tail(input) /\ UNCHANGED codec
          /\ output' = output \/ output' = Append(output, Head(input))
      BY <1>4 DEF HwEncodes, HwSkipsBlank, HwEndsStream
    <2>2. Len(input') = Len(input) - 1 /\ Head(input) \in Int
      BY <2>1, QueueLengths
    <2>3. Len(output') \in Len(output)..(Len(output) + 1)
      <3>1. CASE output' = output
        BY <1>2, <3>1
      <3>2. CASE output' = Append(output, Head(input))
        <4>1. Len(output') = Len(output) + 1
          BY <2>2, <3>2, QueueLengths, Zenon
        <4> QED BY <1>2, <4>1
      <3> QED BY <2>1, <3>1, <3>2
    <2>4. ConfigOwed' \in {0, ConfigOwed}
      <3>1. ConfigOut => ConfigOut'
        BY <2>1, <2>2, ConfigStaysOut
      <3> QED BY <1>0, <3>1, OwedNoMore
    <2>5. AndroidWork' < AndroidWork
      BY <1>9, <1>0, <1>2, <2>1, <2>2, <2>3, <2>4 DEF AndroidWork
    <2> QED BY <1>1, <2>5
  <1>5. CASE HwFails
    <2>1. UNCHANGED <<input, output>> /\ codec' = "failed"
      BY <1>5 DEF HwFails
    <2>2. ConfigOwed' = ConfigOwed
      BY <1>0, <2>1 DEF ConfigOwed, ConfigOut
    <2>3. AndroidWork' < AndroidWork
      BY <1>9, <1>0, <1>2, <2>1, <2>2 DEF AndroidWork
    <2> QED BY <1>1, <2>3
  <1> QED BY <1>3, <1>4, <1>5 DEF Hardware

(* A drawn frame costs the call what it gains in the queue.                *)
LEMMA DrawingWorks ==
  ASSUME IInv, backend = "kAndroid", call = "Poll", SurfaceDraw
  PROVE  CallWork' < CallWork
  <1>1. /\ ConfigOwed \in {0, 2} /\ taken \in Nat
        /\ taken < MaxFrames /\ taken' = taken + 1 /\ input' = Append(input, taken + 1)
        /\ UNCHANGED <<backend, call, late, config, codec, output>>
    BY WorkIsNumber DEF SurfaceDraw, objVars, IInv, Numbers, Types
  <1>2. CallWork = AndroidWork /\ CallWork' = AndroidWork'
    BY <1>1 DEF CallWork, Running
  <1>3. taken + 1 \in Int
    BY <1>1
  <1>4. Len(input) \in Nat /\ Len(output) \in Nat /\ Len(input') = Len(input) + 1
    BY <1>1, <1>3, QueueLengths
  <1>5. ConfigOwed' = ConfigOwed /\ Len(output') = Len(output)
    BY <1>1 DEF ConfigOwed, ConfigOut
  <1>6. FramesWork' = FramesWork - 3
    BY <1>1, EncoderAssumption DEF FramesWork
  <1>7. FramesWork \in Nat
    BY FramesLeft
  <1>8. AndroidWork' < AndroidWork
    BY <1>1, <1>4, <1>5, <1>6, <1>7 DEF AndroidWork
  <1> QED BY <1>2, <1>8

(* Every step of a call in progress, of the hardware's and of the codec's  *)
(* failure included, takes work from it, and its last leaves none.         *)
LEMMA StepsWork == ASSUME IInv, Running, Next  PROVE CallWork' < CallWork
  <1>1. CallWork \in Nat /\ CallWork > 0
    BY WorkIsNumber
  <1>2. CASE call' = "none"
    BY <1>1, <1>2 DEF CallWork, Running
  <1>3. CASE call' # "none"
    BY <1>3, StepsOfCall, FfDrainWorks, McDrainWorks, HardwareWorks, DrawingWorks
  <1> QED BY <1>2, <1>3

(* A call of the encoder that has a codec cannot go round in circles:      *)
(* whatever the hardware and the application drawing do beside it          *)
(* (mediacodec_video.cc:243-334, ffmpeg_video.cc:184-226), each step of    *)
(* its drain loop leaves it fewer to take.  The one call that does not     *)
(* return is a Flush without a codec, which ends the process.  It is the   *)
(* safety half of CallsReturn; that the steps are taken is fairness.       *)
THEOREM CallsAreFinite ==
  Spec => /\ [](CallWork \in Nat /\ (Running => CallWork > 0))
          /\ [][Running => CallWork' < CallWork]_vars
  <1>1. IInv => CallWork \in Nat /\ (Running => CallWork > 0)
    BY WorkIsNumber
  <1>2. IInv /\ [Next]_vars => [Running => CallWork' < CallWork]_vars
    BY StepsWork
  <1> QED BY <1>1, <1>2, Invariance, PTL DEF Spec

-----------------------------------------------------------------------------
(* The end-of-stream flag. *)

Flagless(s) == \A i \in 1..Len(s) : s[i] >= 0

(* A surface encoder that may still be given frames has signalled no end   *)
(* of stream.  (Marks says it of CPU frames.)                              *)
SurfaceFlagless ==
    SurfaceMode /\ CanEncode(life) => Flagless(input) /\ Flagless(output)

(* A queue turns from one to the next by a frame or a blank added, or by a *)
(* buffer taken.                                                           *)
Turns(s, t) ==
    \/ t = s
    \/ s # <<>> /\ t = Tail(s)
    \/ \E x \in Nat : t = Append(s, x)

LEMMA TurnsFlagless ==
  ASSUME NEW s \in Seq(Int), NEW t, Flagless(s), Turns(s, t)  PROVE Flagless(t)
  <1>1. CASE t = s
    BY <1>1
  <1>2. CASE s # <<>> /\ t = Tail(s)
    <2>1. /\ Len(s) \in Nat /\ Len(t) = Len(s) - 1
          /\ \A i \in 1..(Len(s) - 1) : t[i] = s[i + 1]
      BY <1>2, TailOf
    <2> QED BY <2>1 DEF Flagless
  <1>3. ASSUME NEW x \in Nat, t = Append(s, x)  PROVE Flagless(t)
    <2>1. /\ Len(s) \in Nat /\ Len(t) = Len(s) + 1
          /\ \A i \in 1..Len(s) : t[i] = s[i]
          /\ t[Len(s) + 1] = x
      BY <1>3, AppendProperties, LenProperties
    <2> QED BY <2>1 DEF Flagless
  <1> QED BY <1>1, <1>2, <1>3 DEF Turns

LEMMA QueuesTurn ==
  ASSUME IInv, SurfaceFlagless, UNCHANGED request, CanEncode(life') => CanEncode(life),
         SurfaceMode /\ CanEncode(life) => Turns(input, input') /\ Turns(output, output')
  PROVE  SurfaceFlagless'
  <1> SUFFICES ASSUME SurfaceMode, CanEncode(life)  PROVE Flagless(input') /\ Flagless(output')
    BY DEF SurfaceFlagless, SurfaceMode, CanEncode, Flagless
  <1>1. input \in Seq(Int) /\ output \in Seq(Int)
    BY DEF IInv, Buffers
  <1> QED BY <1>1, TurnsFlagless DEF SurfaceFlagless

LEMMA EmptyFlagless == ASSUME input' = <<>>, output' = <<>>  PROVE SurfaceFlagless'
  <1>1. Len(input') = 0 /\ Len(output') = 0
    BY EmptySeq
  <1>2. 1..0 = {}
    OBVIOUS
  <1> QED BY <1>1, <1>2 DEF SurfaceFlagless, Flagless

LEMMA AndroidCallFlagless == ASSUME IInv, SurfaceFlagless, AndroidCall  PROVE SurfaceFlagless'
  <1> USE DEF hwVars, objVars, frameVars
  <1>1. CASE UNCHANGED <<request, life, input, output>>
    BY <1>1, QueuesTurn DEF Turns
  <1>2. CASE NoCodec \/ McInit
    BY <1>2, EmptyFlagless DEF NoCodec, McInit
  <1>3. CASE McFlush \/ McFlushNoCodec
    <2>1. ~CanEncode(life')
      BY <1>3 DEF McFlush, McFlushNoCodec, CanEncode
    <2> QED BY <2>1 DEF SurfaceFlagless, CanEncode
  <1>4. CASE McEncode \/ McEncodeFails
    <2>1. ~SurfaceMode /\ UNCHANGED request
      BY <1>4 DEF McEncode, McEncodeFails
    <2> QED BY <2>1 DEF SurfaceFlagless, SurfaceMode
  <1>5. CASE McPoll
    <2>1. UNCHANGED <<request, input, output>> /\ CanEncode(life)
      BY <1>5 DEF McPoll, McUnchanged
    <2> QED BY <2>1, QueuesTurn DEF Turns
  <1>6. CASE SurfaceDraw
    <2>1. /\ UNCHANGED <<request, life, output>>
          /\ input' = Append(input, taken + 1) /\ taken + 1 \in Nat
      BY <1>6 DEF SurfaceDraw, IInv, Numbers, Types
    <2> QED BY <2>1, QueuesTurn DEF Turns
  <1>7. CASE McInitFails \/ McRelease
    BY <1>1, <1>2, <1>7 DEF McInitFails, McRelease, Refuse, McUnchanged
  <1>8. CASE McInitRejected \/ McEncodeRejected \/ McPollRejected \/ McFlushRejected
    BY <1>1, <1>8 DEF McInitRejected, McEncodeRejected, McPollRejected, McFlushRejected,
       Refuse, McUnchanged
  <1> QED
    BY <1>2, <1>3, <1>4, <1>5, <1>6, <1>7, <1>8 DEF AndroidCall, McCall

LEMMA AndroidDrainFlagless == ASSUME IInv, SurfaceFlagless, AndroidDrain  PROVE SurfaceFlagless'
  <1> USE DEF hwVars, objVars, frameVars
  <1>1. UNCHANGED <<request, life>>
    BY DEF AndroidDrain, McFlushInput, DeadlinePasses, McDrain, McDrainPacket, McDrainRefused,
       McDrainConfig, McDrainEos, McDrainEmpty, McDrainFails, McDraining
  <1>2. CASE McFlushInput
    <2>1. ~CanEncode(life')
      BY <1>1, <1>2 DEF McFlushInput, IInv, Numbers, Stages, CanEncode
    <2> QED BY <2>1 DEF SurfaceFlagless, CanEncode
  <1>3. CASE McDrain \/ DeadlinePasses
    <2>1. SurfaceMode => input' = input
      BY <1>3 DEF DeadlinePasses, McDrain, McDrainPacket, McDrainRefused,
         McDrainConfig, McDrainEos, McDrainEmpty, McDrainFails
    <2>2. SurfaceMode => output' = output \/ (output # <<>> /\ output' = Tail(output))
      BY <1>3 DEF DeadlinePasses, McDrain, McDrainPacket, McDrainRefused,
         McDrainConfig, McDrainEos, McDrainEmpty, McDrainFails
    <2> QED BY <1>1, <2>1, <2>2, QueuesTurn DEF Turns
  <1> QED BY <1>2, <1>3 DEF AndroidDrain

LEMMA HardwareFlagless ==
  ASSUME IInv, SurfaceFlagless, AndroidHw \/ AndroidBreaks  PROVE SurfaceFlagless'
  <1> USE DEF HwRuns, objVars
  <1>1. UNCHANGED <<request, life>>
    BY DEF AndroidHw, AndroidBreaks, Hardware, HwFails, HwEmitsConfig, HwEncodes, HwSkipsBlank,
       HwEndsStream
  <1>2. CASE HwEmitsConfig
    <2>1. input' = input /\ output' = Append(output, Blank) /\ Blank \in Nat
      BY <1>2 DEF HwEmitsConfig, Blank
    <2> QED BY <1>1, <2>1, QueuesTurn DEF Turns
  <1>3. CASE HwEncodes
    <2>1. /\ input # <<>> /\ input' = Tail(input) /\ Head(input) > 0
          /\ output' = Append(output, Head(input))
      BY <1>3 DEF HwEncodes
    <2>2. Head(input) \in Nat
      BY <2>1, TailOf DEF IInv, Buffers
    <2> QED BY <1>1, <2>1, <2>2, QueuesTurn DEF Turns
  <1>4. CASE HwSkipsBlank
    BY <1>1, <1>4, QueuesTurn DEF HwSkipsBlank, Turns
  <1>5. CASE HwEndsStream
    <2>1. Head(input) = EndOfStream /\ Head(input) = input[1] /\ 1 \in 1..Len(input)
      BY <1>5, TailOf DEF HwEndsStream, IInv, Buffers
    <2>2. ~(SurfaceMode /\ CanEncode(life))
      BY <2>1 DEF SurfaceFlagless, Flagless, EndOfStream
    <2> QED BY <1>1, <2>2, QueuesTurn
  <1>6. CASE HwFails
    BY <1>1, <1>6, QueuesTurn DEF HwFails, Turns
  <1> QED BY <1>2, <1>3, <1>4, <1>5, <1>6 DEF AndroidHw, AndroidBreaks, Hardware

LEMMA FlaglessStep == ASSUME IInv, SurfaceFlagless, [Next]_vars  PROVE SurfaceFlagless'
  <1> USE DEF hwVars, objVars, frameVars
  <1>1. ASSUME codec = "none", UNCHANGED <<input, output>>  PROVE SurfaceFlagless'
    BY <1>1, EmptyFlagless DEF IInv, Buffers
  <1>2. CASE FFmpegCall \/ FFmpegDrain
    BY <1>1, <1>2 DEF FFmpegCall, FFmpegDrain, McUnchanged, IInv, Numbers, Stages
  <1>3. CASE Create \/ CreateWithSink \/ CreateWithSinkFails
    BY <1>1, <1>3 DEF Create, CreateWithSink, CreateWithSinkFails, IInv, Numbers, Stages
  <1>4. CASE Attach \/ UNCHANGED vars
    <2>1. UNCHANGED <<request, life, input, output>>
      BY <1>4 DEF Attach, SetOutputSink, vars
    <2> QED BY <2>1, QueuesTurn DEF Turns
  <1> QED
    BY <1>2, <1>3, <1>4, AndroidCallFlagless, AndroidDrainFlagless, HardwareFlagless DEF Next, Crashed

(* The flag never comes out in the drain of an Encode or a Poll, which     *)
(* would drop it and go on (mediacodec_video.cc:329-331): only a Flush     *)
(* sends it, and no encoder takes a frame between a Flush and the Init     *)
(* that replaces the codec, flag and all.                                  *)
THEOREM FlagsReachOnlyFlush ==
  Spec => [](call \in {"Encode", "Poll"} => ~\E i \in DOMAIN output : output[i] = EndOfStream)
  <1> DEFINE Inv == IInv /\ Marks /\ SurfaceFlagless
             Seen == call \in {"Encode", "Poll"} =>
                        ~\E i \in DOMAIN output : output[i] = EndOfStream
  <1>1. Init => Inv
    <2> SUFFICES ASSUME Init PROVE Inv
      OBVIOUS
    <2>1. Len(<<>>) = 0 /\ 1..0 = {}
      BY EmptySeq
    <2>2. 1..Len(input) = {} /\ 1..Len(output) = {}
      BY <2>1 DEF Init
    <2> QED BY <2>2, InvInit DEF Marks, SurfaceFlagless, Flagless
  <1>2. Inv /\ [Next]_vars => Inv'
    BY InvStep, MarksStep, FlaglessStep
  <1>3. Inv => Seen
    <2> SUFFICES ASSUME Inv, call \in {"Encode", "Poll"}
                 PROVE  ~\E i \in DOMAIN output : output[i] = EndOfStream
      OBVIOUS
    <2>1. DOMAIN output = 1..Len(output)
      BY LenProperties DEF IInv, Buffers
    <2>2. CanEncode(life) /\ call # "Flush"
      BY DEF IInv, Numbers, Stages, CanEncode
    <2>3. \A i \in 1..Len(output) : output[i] >= 0
      BY <2>2 DEF Marks, SurfaceFlagless, Flagless
    <2> QED BY <2>1, <2>3 DEF EndOfStream
  <1> HIDE DEF Inv, Seen
  <1>4. Spec => []Seen
    BY <1>1, <1>2, <1>3, PTL DEF Spec
  <1> QED BY <1>4 DEF Seen
=============================================================================
