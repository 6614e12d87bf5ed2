----------------------------- MODULE FFmpegMuxer -----------------------------
(***************************************************************************)
(* FFmpegMuxer of codec/src/framework/backend/ffmpeg/ffmpeg_muxer.{h,cc},  *)
(* in the fragmented mode the programs use, with an audio track.           *)
(*                                                                         *)
(* libavformat is external.  It collects samples in a fragment, which a    *)
(* keyframe or the trailer completes; a keyframe may also be held back to  *)
(* interleave the streams, and what is before it stays with it.  The bytes *)
(* then go through an AVIOContext, whose error sticks: the next frame      *)
(* written reports it.  Any call into it may also fail for want of memory. *)
(***************************************************************************)
EXTENDS Muxer

VARIABLES
    opened,         \* opened_
    pendingAudio,   \* pending_audio_
    fragment,       \* samples of the fragment libavformat is collecting
    ioError         \* the error of fmt_->pb

ffVars == <<opened, pendingAudio, fragment, ioError>>

FfNew ==
    opened = FALSE /\ pendingAudio = <<>> /\ fragment = Nothing /\ ioError = FALSE

(* av_interleaved_write_frame or av_write_frame, when it fails. *)
WriteFails(samples, st) ==
    /\ st = Failed
    /\ fragment' = samples
    /\ UNCHANGED <<file, damaged, ioError>>

(* A sample that completes no fragment. *)
WriteSample(samples, m, n, st) ==
    /\ ~ioError /\ st = "kOk"
    /\ fragment' = With(samples, m, n)
    /\ UNCHANGED <<file, damaged, ioError>>

(* A keyframe completes the fragment before it, and its bytes are pushed   *)
(* to the byte sink, which is flushed: only the flush and what libavformat *)
(* noticed while it wrote show in the status. *)
CommitFragment(samples, n, st) ==
    /\ ~ioError
    /\ fragment' = With(Nothing, "video", n)
    /\ \/ /\ file' = Joined(file, samples)
          /\ st = "kOk" \/ (ByteSinkMayFail /\ st = Failed)
          /\ UNCHANGED <<damaged, ioError>>
       \/ /\ BytesLost /\ ioError' = TRUE
          /\ st \in {"kOk", Failed}
          /\ UNCHANGED file

(* A keyframe held back: what was written before it, a header perhaps, is  *)
(* pushed and the byte sink is flushed all the same. *)
HoldKeyframe(samples, n, st) ==
    /\ ~ioError
    /\ fragment' = With(samples, "video", n)
    /\ UNCHANGED file
    /\ \/ /\ st = "kOk" \/ (ByteSinkMayFail /\ st = Failed)
          /\ UNCHANGED <<damaged, ioError>>
       \/ /\ BytesLost /\ ioError' = TRUE
          /\ st \in {"kOk", Failed}

PushKeyframe(samples, n, st) ==
    \/ WriteFails(samples, st)
    \/ CommitFragment(samples, n, st) \/ HoldKeyframe(samples, n, st)

(* Before the container is open: frames up to the first keyframe are       *)
(* dropped; the keyframe opens it, and the audio held back is replayed.    *)
PushUnopened(key, st) ==
    /\ ~opened
    /\ \/ ~key /\ st = "kOk"
       \/ key /\ st = Failed
    /\ UNCHANGED <<outputVars, ffVars>>

ReplayFails(key, st) ==
    /\ ~opened /\ key
    /\ opened' = TRUE /\ headers' = headers + 1
    /\ \E k \in 0..(Len(pendingAudio) - 1) :
           WriteFails([Nothing EXCEPT !["audio"] = SubSeq(pendingAudio, 1, k)], st)
    /\ UNCHANGED <<trailers, pendingAudio>>

(* Plausible bug: the audio held back is forgotten. *)
OpenWithoutReplay(n, key, st) ==
    /\ ~opened /\ key
    /\ opened' = TRUE /\ headers' = headers + 1
    /\ pendingAudio' = <<>>
    /\ PushKeyframe(Nothing, n, st)
    /\ UNCHANGED trailers

OpenAndReplay(n, key, st) ==
    /\ ~opened /\ key
    /\ opened' = TRUE /\ headers' = headers + 1
    /\ pendingAudio' = <<>>
    /\ PushKeyframe([Nothing EXCEPT !["audio"] = pendingAudio], n, st)
    /\ UNCHANGED trailers

PushOpened(n, key, st) ==
    /\ opened
    /\ IF key THEN PushKeyframe(fragment, n, st)
       ELSE WriteFails(fragment, st) \/ WriteSample(fragment, "video", n, st)
    /\ UNCHANGED <<opened, pendingAudio, headers, trailers>>

FfPushVideo(n, key, st) ==
    \/ PushUnopened(key, st) \/ ReplayFails(key, st)
    \/ OpenAndReplay(n, key, st) \/ PushOpened(n, key, st)

FfPushAudio(n, st) ==
    \/ /\ ~opened /\ st = "kOk"
       /\ pendingAudio' = Append(pendingAudio, n)
       /\ UNCHANGED <<opened, fragment, ioError, outputVars>>
    \/ /\ opened
       /\ WriteFails(fragment, st) \/ WriteSample(fragment, "audio", n, st)
       /\ UNCHANGED <<opened, pendingAudio, headers, trailers>>

(* Finish: the trailer completes the last fragment.  What av_write_trailer *)
(* returns is not looked at, nor is the error of fmt_->pb; only the flush  *)
(* of the byte sink is. *)
FfFinish(st) ==
    /\ opened' = FALSE /\ pendingAudio' = <<>> /\ fragment' = Nothing
    /\ ioError' = FALSE
    /\ IF ~opened
       THEN st = "kOk" /\ UNCHANGED outputVars
       ELSE /\ st = "kOk" \/ (ByteSinkMayFail /\ st = Failed)
            /\ \/ /\ ~ioError
                  /\ file' = Joined(file, fragment)
                  /\ trailers' = trailers + 1
                  /\ UNCHANGED damaged
               \/ BytesLost /\ UNCHANGED <<file, trailers>>
            /\ UNCHANGED headers
=============================================================================
