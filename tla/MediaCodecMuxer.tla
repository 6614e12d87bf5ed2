--------------------------- MODULE MediaCodecMuxer ---------------------------
(***************************************************************************)
(* MediaCodecMuxer of codec/src/framework/backend/android, with an audio   *)
(* track.                                                                  *)
(*                                                                         *)
(* AMediaMuxer is external: once started it takes each sample's address    *)
(* and reads it later, on a writer thread of its own that AMediaMuxer_stop *)
(* joins; the file is whole only after the stop, and is then replayed from *)
(* the temporary file to the byte sink.                                    *)
(***************************************************************************)
EXTENDS Muxer, Functions

VARIABLES
    muxer,      \* muxer_ and tmp_ are set
    tracks,     \* the media with video_track_, audio_track_ set
    started,    \* started_
    pending,    \* pending_: [media, packet] held back until the start
    inFlight,   \* in_flight_: samples whose copy is kept alive
    handed,     \* samples the writer thread has yet to read
    tmp         \* samples written to the temporary file, per media

mcVars == <<muxer, tracks, started, pending, inFlight, handed, tmp>>

McNew ==
    /\ muxer = FALSE /\ tracks = {} /\ started = FALSE
    /\ pending = <<>> /\ inFlight = {} /\ handed = <<>> /\ tmp = Nothing

Sample(m, n) == [media |-> m, packet |-> n]

(* EnsureMuxer fails, or the media's track cannot be added: no csd in the  *)
(* keyframe, no AudioSpecificConfig, or AMediaMuxer_addTrack refuses. *)
McPushFails(m, key, st) ==
    /\ st = Failed
    /\ \/ ~muxer /\ UNCHANGED muxer
       \/ m \notin tracks /\ (m = "video" => key) /\ muxer' = TRUE
    /\ UNCHANGED <<tracks, started, pending, inFlight, handed, tmp>>

(* Frames before the first keyframe are dropped. *)
McPushDropped(m, key, st) ==
    /\ m = "video" /\ m \notin tracks /\ ~key
    /\ st = "kOk" /\ muxer' = TRUE
    /\ UNCHANGED <<tracks, started, pending, inFlight, handed, tmp>>

AddTrack(m, key) ==
    /\ m = "video" => m \in tracks \/ key
    /\ muxer' = TRUE /\ tracks' = tracks \cup {m}
    /\ UNCHANGED tmp

CanStart == tracks' = Media

McPushHeldBack(m, n, key, st) ==
    /\ AddTrack(m, key)
    /\ ~started /\ ~CanStart
    /\ st = "kOk"
    /\ pending' = Append(pending, Sample(m, n))
    /\ UNCHANGED <<started, inFlight, handed>>

McStartFails(m, key, st) ==
    /\ AddTrack(m, key)
    /\ ~started /\ CanStart
    /\ st = Failed
    /\ UNCHANGED <<started, pending, inFlight, handed>>

(* Start and what was held back, then the sample; a sample that is refused *)
(* ends the call, and nothing stays held back. *)
HandOver(samples, st) ==
    \/ /\ st = "kOk"
       /\ inFlight' = inFlight \cup Range(samples)
       /\ handed' = handed \o samples
    \/ \E k \in 1..Len(samples) :
           /\ st = Failed
           /\ inFlight' = inFlight \cup Range(SubSeq(samples, 1, k))
           /\ handed' = handed \o SubSeq(samples, 1, k - 1)

McStarts(m, n, key, st) ==
    /\ AddTrack(m, key)
    /\ ~started /\ CanStart
    /\ started' = TRUE
    /\ pending' = <<>>
    /\ HandOver(Append(pending, Sample(m, n)), st)

McWrites(m, n, key, st) ==
    /\ AddTrack(m, key)
    /\ started
    /\ HandOver(<<Sample(m, n)>>, st)
    /\ UNCHANGED <<started, pending>>

McPush(m, n, key, st) ==
    /\ \/ McPushFails(m, key, st) \/ McPushDropped(m, key, st)
       \/ McPushHeldBack(m, n, key, st) \/ McStartFails(m, key, st)
       \/ McStarts(m, n, key, st) \/ McWrites(m, n, key, st)
    /\ UNCHANGED outputVars

(* The writer thread of AMediaMuxer reads the oldest sample. *)
WriterWrites ==
    /\ handed # <<>>
    /\ tmp' = With(tmp, Head(handed).media, Head(handed).packet)
    /\ handed' = Tail(handed)
    /\ UNCHANGED <<muxer, tracks, started, pending, inFlight, outputVars>>

(* Finalize's tail: muxer_, tmp_ and what was held back go.  The tracks    *)
(* and finished_ stay: Finish is called once. *)
McReleased ==
    /\ muxer' = FALSE /\ started' = FALSE /\ pending' = <<>>
    /\ tmp' = Nothing
    /\ UNCHANGED tracks

(* Plausible bug: the copies are released before the stop. *)
ReleasedBeforeStop == inFlight' = {} /\ UNCHANGED handed

(* AMediaMuxer_stop returns when the writer has read everything. *)
Stopped == handed = <<>> /\ inFlight' = {} /\ UNCHANGED handed

McFinish(st) ==
    /\ McReleased
    /\ IF ~started
       THEN st = Failed /\ UNCHANGED <<inFlight, handed, outputVars>>
       ELSE /\ Stopped
            /\ \/ /\ st = "kOk"
                  /\ file' = tmp
                  /\ headers' = headers + 1 /\ trailers' = trailers + 1
                  /\ UNCHANGED damaged
               \/ st = Failed /\ UNCHANGED outputVars
               \/ /\ st = Failed /\ BytesLost
                  /\ UNCHANGED <<file, headers, trailers>>
=============================================================================
