------------------------------ MODULE EncodeFile ------------------------------
(***************************************************************************)
(* The programs codec/src/examples/encode_file.cc and, with TeeSink, the   *)
(* recording of stream/src/examples/encode_and_push.cc: a main thread that *)
(* runs a video and an audio encoder into one PacketQueue under kBlock,    *)
(* and a drain thread that runs Await into FFmpegMuxer, MediaCodecMuxer,   *)
(* a FileConsumer for the video alone (--raw), or both a muxer and a       *)
(* RawH264Sink.  What the stream makes of the packets does not show here:  *)
(* RecordAndPushSink does not look at the status of SendVideo.             *)
(*                                                                         *)
(* The encoders are those of EncoderContract, each with the frames it      *)
(* holds back; the rings are the first-in first-out queues of MediaFifo,   *)
(* which PacketQueue is proved to implement.  Packets are numbered in the  *)
(* order a ring takes them.                                                *)
(***************************************************************************)
EXTENDS FFmpegMuxer, MediaCodecMuxer

CONSTANTS
    Sinks,       \* the sinks the program may be built and called with
    Capacity,    \* packets a ring holds
    MaxFrames    \* bound: frames each encoder is given

ASSUME EncodeFileAssumption ==
    /\ Sinks \subseteq {"FFmpegMuxer", "MediaCodecMuxer", "FileConsumer", "TeeSink"}
    /\ Capacity \in Nat \ {0}
    /\ MaxFrames \in [Media -> Nat]

VARIABLES
    sinkKind,    \* what Await delivers to; it never changes
    main,        \* [pc, media]: where the main thread is
    taken,       \* frames each encoder took
    left,        \* frames that left each codec
    ring,        \* [oldest, newest, closed] per media: packets oldest+1..newest
    keyframes,   \* the video packets that are keyframes
    failed,      \* history: an encoder's call returned an error
    raw,         \* the packets of the elementary stream's file
    rawDamaged,  \* history: bytes of that file were lost
    drain        \* [pc, media, done, result]: Await, as in PacketQueue

encoderVars == <<taken, left, failed>>
queueVars == <<ring, keyframes>>
rawVars == <<raw, rawDamaged>>
sinkVars == <<outputVars, ffVars, mcVars, rawVars>>
vars == <<sinkKind, main, encoderVars, queueVars, drain, sinkVars>>

HasAudio == sinkKind # "FileConsumer"
IsFFmpeg == sinkKind \in {"FFmpegMuxer", "TeeSink"}
HasRaw   == sinkKind \in {"FileConsumer", "TeeSink"}

Init ==
    /\ sinkKind \in Sinks
    /\ main = [pc |-> "frame", media |-> "video"]
    /\ taken = [m \in Media |-> 0] /\ left = [m \in Media |-> 0] /\ failed = FALSE
    /\ ring = [m \in Media |-> [oldest |-> 0, newest |-> 0, closed |-> FALSE]]
    /\ keyframes = {}
    /\ drain = [pc |-> "pull", media |-> "video", done |-> {}, result |-> "none"]
    /\ NoOutput /\ FfNew /\ McNew /\ raw = <<>> /\ rawDamaged = FALSE

-----------------------------------------------------------------------------
(* The main thread.                                                        *)

Go(pc, m) == main' = [pc |-> pc, media |-> m]

MainOnly == UNCHANGED <<sinkKind, drain, sinkVars>>

(* The loop ends after its last frame, or breaks on an error. *)
LoopEnds ==
    /\ main.pc = "frame"
    /\ Go("Flush", "video")
    /\ UNCHANGED <<encoderVars, queueVars>> /\ MainOnly

Encode(m) ==
    /\ main.pc = IF m = "video" THEN "frame" ELSE "audio"
    /\ m = "audio" => HasAudio
    /\ taken[m] < MaxFrames[m]
    /\ taken' = [taken EXCEPT ![m] = @ + 1]
    /\ Go("Encode", m)
    /\ UNCHANGED <<left, failed, queueVars>> /\ MainOnly

(* All audio frames of this video frame's span are encoded. *)
AudioPaced ==
    /\ main.pc = "audio"
    /\ Go("frame", "video")
    /\ UNCHANGED <<encoderVars, queueVars>> /\ MainOnly

(* The encoder's drain, in Encode or Flush: a frame leaves the codec, and  *)
(* its packet is pushed, for which the call waits while the ring is full.  *)
InCall == main.pc \in {"Encode", "Flush"}

CodecGives ==
    /\ InCall
    /\ left[main.media] < taken[main.media]
    /\ left' = [left EXCEPT ![main.media] = @ + 1]
    /\ Go(IF main.pc = "Encode" THEN "EncodePush" ELSE "FlushPush", main.media)
    /\ UNCHANGED <<taken, failed, queueVars>> /\ MainOnly

(* Plausible bug: off by one. *)
HasRoomForOne(m) == ring[m].newest - ring[m].oldest <= Capacity

HasRoom(m) == ring[m].newest - ring[m].oldest < Capacity

(* The first packet of an encoder that lost none is a keyframe. *)
QueuePush ==
    LET m == main.media IN
    /\ main.pc \in {"EncodePush", "FlushPush"}
    /\ HasRoom(m)
    /\ ring' = [ring EXCEPT ![m].newest = @ + 1]
    /\ \/ UNCHANGED keyframes /\ (m = "video" /\ ~failed => ring[m].newest > 0)
       \/ m = "video" /\ keyframes' = keyframes \cup {ring[m].newest + 1}
    /\ Go(IF main.pc = "EncodePush" THEN "Encode" ELSE "Flush", m)
    /\ UNCHANGED encoderVars /\ MainOnly

(* An error of the video encoder breaks the loop; one of the audio encoder *)
(* only ends this video frame's share of audio.                            *)
AfterError(m) ==
    IF m = "video" THEN Go("Flush", "video") ELSE Go("frame", "video")

AfterFlush(m) ==
    IF m = "video" /\ HasAudio THEN Go("Flush", "audio") ELSE Go("MarkEos", "video")

EncodeReturns ==
    /\ main.pc = "Encode"
    /\ Go("audio", "audio")
    /\ UNCHANGED <<encoderVars, queueVars>> /\ MainOnly

(* The call fails, before or after a frame has left the codec.  (A frame   *)
(* the encoder refuses to take is a frame lost in the codec here.)         *)
CallFails ==
    /\ InCall
    /\ failed' = TRUE
    /\ \/ UNCHANGED left
       \/ /\ left[main.media] < taken[main.media]
          /\ left' = [left EXCEPT ![main.media] = @ + 1]
    /\ IF main.pc = "Encode" THEN AfterError(main.media) ELSE AfterFlush(main.media)
    /\ UNCHANGED <<taken, queueVars>> /\ MainOnly

(* A flush that returned kOk has emptied an FFmpeg codec, but not always a *)
(* MediaCodec (see FlushDrains in CodecFactory). *)
FlushReturns ==
    /\ main.pc = "Flush"
    /\ left[main.media] = taken[main.media] \/ ~IsFFmpeg
    /\ AfterFlush(main.media)
    /\ UNCHANGED <<encoderVars, queueVars>> /\ MainOnly

(* Plausible bug: only the video ring is closed. *)
MarkEosOfVideo ==
    /\ main.pc = "MarkEos"
    /\ ring' = [ring EXCEPT !["video"].closed = TRUE]
    /\ Go("join", "video")
    /\ UNCHANGED <<encoderVars, keyframes>> /\ MainOnly

MarkEos ==
    /\ main.pc = "MarkEos"
    /\ ring' = [ring EXCEPT ![main.media].closed = TRUE]
    /\ IF main.media = "video" THEN Go("MarkEos", "audio") ELSE Go("join", "video")
    /\ UNCHANGED <<encoderVars, keyframes>> /\ MainOnly

Join ==
    /\ main.pc = "join" /\ drain.pc = "returned"
    /\ Go("returned", "video")
    /\ UNCHANGED <<encoderVars, queueVars>> /\ MainOnly

Main ==
    \/ LoopEnds \/ (\E m \in Media : Encode(m)) \/ AudioPaced
    \/ CodecGives \/ QueuePush \/ EncodeReturns \/ CallFails \/ FlushReturns
    \/ MarkEos \/ Join

-----------------------------------------------------------------------------
(* The elementary stream: FileConsumer, or TeeSink's RawH264Sink, which    *)
(* takes the audio and writes none of it.                                  *)

RawPush(m, n, st) ==
    \/ st = "kOk" /\ UNCHANGED rawDamaged
       /\ raw' = IF m = "video" THEN Append(raw, n) ELSE raw
    \/ /\ ByteSinkMayFail /\ m = "video"
       /\ st = Failed /\ rawDamaged' = TRUE /\ UNCHANGED raw

(* stdio writes what it still holds.  RawH264Sink reports what Flush says; *)
(* the result of FileConsumer's fclose is not looked at. *)
RawFinish(st) ==
    \/ st = "kOk" /\ UNCHANGED rawVars
    \/ /\ ByteSinkMayFail /\ rawDamaged' = TRUE
       /\ \E k \in 0..Len(raw) : raw' = SubSeq(raw, 1, k)
       /\ st = IF sinkKind = "FileConsumer" THEN "kOk" ELSE Failed

-----------------------------------------------------------------------------
(* The drain thread: Await with its sink.                                  *)

FfPush(m, n, st) ==
    IF m = "video" THEN FfPushVideo(n, n \in keyframes, st) ELSE FfPushAudio(n, st)

(* TeeSink: both sinks get the call, whatever the first one says. *)
BothStatus(s1, s2) == IF s1 = "kOk" /\ s2 = "kOk" THEN "kOk" ELSE Failed

TeePush(m, n, st) ==
    \E s1, s2 \in {"kOk", Failed} :
        FfPush(m, n, s1) /\ RawPush(m, n, s2) /\ st = BothStatus(s1, s2)

TeeFinish(st) ==
    \E s1, s2 \in {"kOk", Failed} :
        FfFinish(s1) /\ RawFinish(s2) /\ st = BothStatus(s1, s2)

SinkPush(m, n, st) ==
    CASE sinkKind = "FFmpegMuxer" ->
            FfPush(m, n, st) /\ UNCHANGED <<mcVars, rawVars>>
      [] sinkKind = "MediaCodecMuxer" ->
            McPush(m, n, n \in keyframes, st) /\ UNCHANGED <<ffVars, rawVars>>
      [] sinkKind = "TeeSink" ->
            TeePush(m, n, st) /\ UNCHANGED mcVars
      [] OTHER ->
            RawPush(m, n, st) /\ UNCHANGED <<outputVars, ffVars, mcVars>>

SinkFinish(st) ==
    CASE sinkKind = "FFmpegMuxer" ->
            FfFinish(st) /\ UNCHANGED <<mcVars, rawVars>>
      [] sinkKind = "MediaCodecMuxer" ->
            McFinish(st) /\ UNCHANGED <<ffVars, rawVars>>
      [] sinkKind = "TeeSink" ->
            TeeFinish(st) /\ UNCHANGED mcVars
      [] OTHER ->
            RawFinish(st) /\ UNCHANGED <<outputVars, ffVars, mcVars>>

DrainOnly == UNCHANGED <<sinkKind, main, encoderVars, keyframes>>

Other(m) == IF m = "video" THEN "audio" ELSE "video"

AfterDrainOne(done) ==
    IF done = Media
    THEN [drain EXCEPT !.pc = "finish", !.done = done]
    ELSE [drain EXCEPT !.pc = "pull", !.done = done,
              !.media = IF Other(@) \notin done THEN Other(@) ELSE @]

Waiting == ring[drain.media].oldest < ring[drain.media].newest

(* Pull times out on an empty ring, or finds its end. *)
PullNothing ==
    /\ drain.pc = "pull" /\ ~Waiting
    /\ drain' = AfterDrainOne(IF ring[drain.media].closed
                              THEN drain.done \cup {drain.media} ELSE drain.done)
    /\ UNCHANGED <<ring, sinkVars>> /\ DrainOnly

(* Plausible bug: the newest packet is taken, and those before it go. *)
PullNewest ==
    /\ drain.pc = "pull" /\ Waiting
    /\ ring' = [ring EXCEPT ![drain.media].oldest = ring[drain.media].newest]
    /\ drain' = [drain EXCEPT !.pc = "deliver"]
    /\ UNCHANGED sinkVars /\ DrainOnly

PullPacket ==
    /\ drain.pc = "pull" /\ Waiting
    /\ ring' = [ring EXCEPT ![drain.media].oldest = @ + 1]
    /\ drain' = [drain EXCEPT !.pc = "deliver"]
    /\ UNCHANGED sinkVars /\ DrainOnly

(* A push that fails ends the loop; Finish is called either way. *)
Deliver ==
    /\ drain.pc = "deliver"
    /\ \E st \in {"kOk", Failed} :
           /\ SinkPush(drain.media, ring[drain.media].oldest, st)
           /\ drain' = IF st = "kOk" THEN AfterDrainOne(drain.done)
                       ELSE [drain EXCEPT !.pc = "finish", !.result = Failed]
    /\ UNCHANGED ring /\ DrainOnly

Finish ==
    /\ drain.pc = "finish"
    /\ \E st \in {"kOk", Failed} :
           /\ SinkFinish(st)
           /\ drain' = [drain EXCEPT !.pc = "returned",
                            !.result = IF @ = Failed THEN Failed ELSE st]
    /\ UNCHANGED ring /\ DrainOnly

Await == PullNothing \/ PullPacket \/ Deliver \/ Finish

Writer == WriterWrites /\ UNCHANGED <<ffVars, rawVars, ring, drain>> /\ DrainOnly

(* main has returned. *)
Terminated == main.pc = "returned" /\ UNCHANGED vars

(* The sink has given up, and the main thread may wait for ever on a ring  *)
(* nobody empties. *)
Abandoned == drain.result = Failed /\ UNCHANGED vars

Next == Main \/ Await \/ Writer \/ Terminated \/ Abandoned

Fairness == WF_vars(Main) /\ WF_vars(Await) /\ WF_vars(Writer)

Spec == Init /\ [][Next]_vars /\ Fairness
-----------------------------------------------------------------------------
(* Properties.                                                             *)

(* Every variable has its type; a ring never holds more than its capacity, *)
(* and no codec gives more frames than it took.                            *)
TypeOK ==
    /\ sinkKind \in Sinks
    /\ main.media \in Media
    /\ \A m \in Media :
           /\ taken[m] \in 0..MaxFrames[m] /\ left[m] \in 0..taken[m]
           /\ ring[m].newest \in 0..left[m] /\ ring[m].oldest \in 0..ring[m].newest
           /\ ring[m].newest - ring[m].oldest <= Capacity
    /\ keyframes \subseteq 1..ring["video"].newest
    /\ drain.done \subseteq Media /\ drain.media \in Media
    /\ headers \in 0..1 /\ trailers \in 0..headers
    /\ tracks \subseteq Media

(* When Await returned kOk, no encoder's call failed and no bytes were     *)
(* lost, the files are whole: every packet of both media, in order and     *)
(* once, between one header and one trailer; and with FFmpeg these are the *)
(* packets of every frame the encoders took.  The audio that came before   *)
(* the first keyframe, or before the start of AMediaMuxer, is there too    *)
(* (muxer-contract.md:81-92).                                              *)
Packets(m) == [i \in 1..ring[m].newest |-> i]

FileIsWhole ==
    (drain.result = "kOk" /\ ~failed /\ ~damaged /\ ~rawDamaged) =>
        /\ HasAudio => /\ \A m \in Media : file[m] = Packets(m)
                       /\ trailers = headers
                       /\ ring["video"].newest > 0 => headers = 1
        /\ HasRaw => raw = Packets("video")
        /\ IsFFmpeg => \A m \in Media : ring[m].newest = taken[m]

(* AMediaMuxer's writer thread only ever reads sample copies that          *)
(* in_flight_ still keeps alive (mediacodec_muxer.h:75-78).                *)
WriterReadsLiveBuffers == Range(handed) \subseteq inFlight

(* The rings are the queues that PacketQueue implements: nothing is taken  *)
(* out of turn, put into a full ring, or put after the end of stream that  *)
(* encode_file.cc marks when it has flushed.                               *)
Fifo(m) == INSTANCE MediaFifo WITH
    oldest <- ring[m].oldest, newest <- ring[m].newest, taken <- ring[m].oldest,
    closed <- ring[m].closed, lossy <- FALSE

RingsAreFifo ==
    /\ \A m \in Media : Fifo(m)!Init
    /\ [][\A m \in Media : [Fifo(m)!Next]_(Fifo(m)!vars)]_vars

(* The program ends, unless the sink fails: no order of Encode, Flush,     *)
(* MarkEos and Await leaves a thread waiting for another that waits.       *)
ProgramEnds == <>(main.pc = "returned" \/ drain.result = Failed)
=============================================================================
