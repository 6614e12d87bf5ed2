--------------------------- MODULE EncodeFile_proofs ---------------------------
(***************************************************************************)
(* Proofs about EncodeFile, for any capacity, any number of frames and any *)
(* of the four sinks.                                                      *)
(*                                                                         *)
(* CoreInv is about the two threads and the rings; the invariants after it *)
(* say what each sink has made of the packets it was given.                *)
(***************************************************************************)
EXTENDS EncodeFile, SequenceTheorems, TLAPS

-----------------------------------------------------------------------------
(* The two threads and the rings.                                          *)

MainPlaces == {"frame", "audio", "Encode", "EncodePush", "Flush", "FlushPush",
               "MarkEos", "join", "returned"}

CoreTypes ==
    /\ sinkKind \in Sinks
    /\ main \in [pc : MainPlaces, media : Media]
    /\ taken \in [Media -> Nat] /\ left \in [Media -> Nat] /\ failed \in BOOLEAN
    /\ ring \in [Media -> [oldest : Nat, newest : Nat, closed : BOOLEAN]]
    /\ keyframes \in SUBSET Nat
    /\ drain \in [pc : {"pull", "deliver", "finish", "returned"}, media : Media,
                  done : SUBSET Media, result : {"none", "kOk", Failed}]

Pushing(m) == main.pc \in {"EncodePush", "FlushPush"} /\ main.media = m

(* Counts: a packet on its way to its ring has left the codec; without an  *)
(* error every other packet that left is in the ring or was.               *)
Counts ==
    /\ \A m \in Media :
          /\ left[m] <= taken[m] /\ taken[m] <= MaxFrames[m]
          /\ ring[m].oldest <= ring[m].newest /\ ring[m].newest <= left[m]
          /\ ring[m].newest - ring[m].oldest <= Capacity
          /\ Pushing(m) => ring[m].newest < left[m]
          /\ ~failed => left[m] = ring[m].newest + (IF Pushing(m) THEN 1 ELSE 0)
    /\ \A k \in keyframes : 1 <= k /\ k <= ring["video"].newest
    /\ ~failed /\ ring["video"].newest > 0 => 1 \in keyframes

(* How far the main thread is: what it has flushed and what it has closed, *)
(* and that it begins every round with a video frame.                      *)
Marked == {"MarkEos", "join", "returned"}

Flushed(m) ==
    \/ main.pc \in Marked
    \/ main.pc \in {"Flush", "FlushPush"} /\ main.media = "audio" /\ m = "video"

Stages ==
    /\ \A m \in Media :
          /\ ring[m].closed => main.pc \in Marked
          /\ IsFFmpeg /\ ~failed /\ Flushed(m) => left[m] = taken[m]
    /\ main.pc \in {"audio", "Encode", "EncodePush"} \/ taken["audio"] > 0
          => taken["video"] > 0

(* Await ends, but for an error, once both rings are closed and empty. *)
AwaitStages ==
    /\ \A m \in drain.done : ring[m].closed /\ ring[m].oldest = ring[m].newest
    /\ drain.pc \in {"pull", "deliver"} => drain.result = "none" /\ drain.done # Media
    /\ drain.pc = "deliver" => ring[drain.media].oldest > 0
    /\ drain.pc \in {"finish", "returned"} /\ drain.result # Failed => drain.done = Media
    /\ drain.pc = "finish" => drain.result # "kOk"

CoreInv == CoreTypes /\ Counts /\ Stages /\ AwaitStages

LEMMA CoreInit == Init => CoreInv
  <1> SUFFICES ASSUME Init PROVE CoreInv
    OBVIOUS
  <1> USE EncodeFileAssumption DEF Init
  <1>1. CoreTypes
    BY DEF CoreTypes, MainPlaces, Media
  <1>2. Counts
    <2>1. \A m \in Media : /\ taken[m] = 0 /\ left[m] = 0
                          /\ ring[m].oldest = 0 /\ ring[m].newest = 0
                          /\ ~Pushing(m) /\ MaxFrames[m] \in Nat
      BY DEF Pushing
    <2>2. keyframes = {} /\ ring["video"].newest = 0
      BY <2>1 DEF Media
    <2> QED BY <2>1, <2>2 DEF Counts
  <1>3. Stages
    BY DEF Stages, Flushed, Marked, Media
  <1>4. AwaitStages
    <2>1. drain.pc = "pull" /\ drain.done = {} /\ drain.result = "none" /\ {} # Media
      BY DEF Media
    <2> QED BY <2>1 DEF AwaitStages
  <1> QED BY <1>1, <1>2, <1>3, <1>4 DEF CoreInv

LEMMA MainKeepsTypes == ASSUME CoreInv, Main  PROVE CoreTypes'
  <1> USE DEF CoreInv, CoreTypes, MainPlaces, Go, MainOnly, encoderVars, queueVars
  <1>1. CASE LoopEnds BY <1>1 DEF LoopEnds, Media
  <1>2. ASSUME NEW m \in Media, Encode(m) PROVE CoreTypes'
    BY <1>2 DEF Encode
  <1>3. CASE AudioPaced BY <1>3 DEF AudioPaced, Media
  <1>4. CASE CodecGives BY <1>4 DEF CodecGives
  <1>5. CASE QueuePush BY <1>5 DEF QueuePush
  <1>6. CASE EncodeReturns BY <1>6 DEF EncodeReturns, Media
  <1>7. CASE CallFails BY <1>7 DEF CallFails, AfterError, AfterFlush, Media
  <1>8. CASE FlushReturns BY <1>8 DEF FlushReturns, AfterFlush, Media
  <1>9. CASE MarkEos
    <2>1. [ring[main.media] EXCEPT !.closed = TRUE]
             \in [oldest : Nat, newest : Nat, closed : BOOLEAN]
      OBVIOUS
    <2> QED BY <1>9, <2>1 DEF MarkEos, Media
  <1>10. CASE Join BY <1>10 DEF Join, Media
  <1> QED BY <1>1, <1>2, <1>3, <1>4, <1>5, <1>6, <1>7, <1>8, <1>9, <1>10 DEF Main

LEMMA MainKeepsCounts == ASSUME CoreInv, Main  PROVE Counts'
  <1> USE EncodeFileAssumption
      DEF CoreInv, CoreTypes, Counts, Pushing, Go, MainOnly, encoderVars, queueVars
  <1>1. CASE LoopEnds BY <1>1 DEF LoopEnds
  <1>2. ASSUME NEW m \in Media, Encode(m) PROVE Counts'
    BY <1>2 DEF Encode
  <1>3. CASE AudioPaced BY <1>3 DEF AudioPaced
  <1>4. CASE CodecGives BY <1>4 DEF CodecGives, InCall
  <1>5. CASE QueuePush
    <2>1. \A m \in Media : ring'[m] = IF m = main.media
                                      THEN [ring[m] EXCEPT !.newest = @ + 1] ELSE ring[m]
      BY <1>5 DEF QueuePush
    <2>2. ring["video"].newest <= ring'["video"].newest
      BY <2>1 DEF Media
    <2>3. \A k \in keyframes' : 1 <= k /\ k <= ring'["video"].newest
      BY <1>5, <2>1, <2>2 DEF QueuePush, Media
    <2>4. ~failed /\ ring'["video"].newest > 0 => 1 \in keyframes'
      BY <1>5, <2>1 DEF QueuePush, Media
    <2>5. \A m \in Media :
          /\ left[m] <= taken[m] /\ taken[m] <= MaxFrames[m]
          /\ ring'[m].oldest <= ring'[m].newest /\ ring'[m].newest <= left[m]
          /\ ring'[m].newest - ring'[m].oldest <= Capacity
          /\ ~Pushing(m)'
          /\ ~failed => left[m] = ring'[m].newest
      BY <1>5, <2>1 DEF QueuePush, HasRoom
    <2> QED BY <1>5, <2>3, <2>4, <2>5 DEF QueuePush
  <1>6. CASE EncodeReturns BY <1>6 DEF EncodeReturns
  <1>7. CASE CallFails BY <1>7 DEF CallFails, AfterError, AfterFlush, InCall
  <1>8. CASE FlushReturns BY <1>8 DEF FlushReturns, AfterFlush
  <1>9. CASE MarkEos BY <1>9 DEF MarkEos, Media
  <1>10. CASE Join BY <1>10 DEF Join
  <1> QED BY <1>1, <1>2, <1>3, <1>4, <1>5, <1>6, <1>7, <1>8, <1>9, <1>10 DEF Main

LEMMA MainKeepsStages == ASSUME CoreInv, Main  PROVE Stages' /\ AwaitStages'
  <1> USE DEF CoreInv, CoreTypes, Counts, Stages, AwaitStages, Pushing, Flushed, Marked,
          IsFFmpeg, HasAudio, Go, MainOnly, Failed, encoderVars, queueVars
  <1>1. CASE LoopEnds BY <1>1 DEF LoopEnds
  <1>2. ASSUME NEW m \in Media, Encode(m) PROVE Stages' /\ AwaitStages'
    BY <1>2 DEF Encode, Media
  <1>3. CASE AudioPaced BY <1>3 DEF AudioPaced
  <1>4. CASE CodecGives BY <1>4 DEF CodecGives, InCall
  <1>5. CASE QueuePush BY <1>5 DEF QueuePush
  <1>6. CASE EncodeReturns BY <1>6 DEF EncodeReturns
  <1>7. CASE CallFails BY <1>7 DEF CallFails, AfterError, AfterFlush, InCall
  <1>8. CASE FlushReturns BY <1>8 DEF FlushReturns, AfterFlush, Media
  <1>9. CASE MarkEos BY <1>9 DEF MarkEos, Media
  <1>10. CASE Join BY <1>10 DEF Join
  <1> QED BY <1>1, <1>2, <1>3, <1>4, <1>5, <1>6, <1>7, <1>8, <1>9, <1>10 DEF Main

LEMMA AwaitKeepsTypes == ASSUME CoreInv, Await  PROVE CoreTypes'
  <1> USE DEF CoreInv, CoreTypes, DrainOnly, encoderVars, Failed
  <1>1. ASSUME NEW d \in SUBSET Media  PROVE AfterDrainOne(d) \in
            [pc : {"pull", "deliver", "finish", "returned"}, media : Media,
             done : SUBSET Media, result : {"none", "kOk", Failed}]
    BY <1>1 DEF AfterDrainOne, Other, Media
  <1>2. CASE PullNothing BY <1>1, <1>2 DEF PullNothing
  <1>3. CASE PullPacket BY <1>3 DEF PullPacket
  <1>4. CASE Deliver BY <1>1, <1>4 DEF Deliver
  <1>5. CASE Finish BY <1>5 DEF Finish
  <1> QED BY <1>2, <1>3, <1>4, <1>5 DEF Await

LEMMA AwaitKeepsCore == ASSUME CoreInv, Await  PROVE CoreInv'
  <1>1. CoreTypes'
    BY AwaitKeepsTypes
  <1> USE DEF CoreInv, CoreTypes, DrainOnly, encoderVars
  <1>2. Counts'
    <2> USE DEF Counts, Pushing
    <2>1. CASE UNCHANGED ring BY <2>1 DEF Await, PullNothing, PullPacket, Deliver, Finish
    <2>2. CASE PullPacket BY <2>2, EncodeFileAssumption DEF PullPacket, Waiting
    <2> QED BY <2>1, <2>2 DEF Await, PullNothing, Deliver, Finish
  <1>3. Stages'
    <2> USE DEF Stages, Flushed, Marked, IsFFmpeg
    <2>1. CASE UNCHANGED ring BY <2>1 DEF Await, PullNothing, PullPacket, Deliver, Finish
    <2>2. CASE PullPacket BY <2>2 DEF PullPacket
    <2> QED BY <2>1, <2>2 DEF Await, PullNothing, Deliver, Finish
  <1>4. AwaitStages'
    <2> USE DEF AwaitStages, Failed
    <2>1. ASSUME NEW d \in SUBSET Media, drain' = AfterDrainOne(d), UNCHANGED ring,
                 \A m \in d : ring[m].closed /\ ring[m].oldest = ring[m].newest,
                 drain.result = "none"
          PROVE  AwaitStages'
      BY <2>1 DEF AfterDrainOne
    <2>2. CASE PullNothing
      <3> DEFINE d == IF ring[drain.media].closed
                      THEN drain.done \cup {drain.media} ELSE drain.done
      <3>1. d \in SUBSET Media
        OBVIOUS
      <3>2. drain.media \in Media /\ ring[drain.media].oldest = ring[drain.media].newest
        <4>1. drain.media \in Media
          OBVIOUS
        <4>2. ring[drain.media].oldest <= ring[drain.media].newest
          BY <4>1 DEF Counts
        <4>3. ring[drain.media].oldest \in Nat /\ ring[drain.media].newest \in Nat
          BY <4>1
        <4>4. ~(ring[drain.media].oldest < ring[drain.media].newest)
          BY <2>2 DEF PullNothing, Waiting
        <4>5. \A x, y \in Nat : x <= y /\ ~(x < y) => x = y
          OBVIOUS
        <4> QED BY ONLY <4>1, <4>2, <4>3, <4>4, <4>5
      <3>3. \A m \in d : ring[m].closed /\ ring[m].oldest = ring[m].newest
        <4>1. CASE ring[drain.media].closed BY <3>2, <4>1
        <4>2. CASE ~ring[drain.media].closed BY <4>2
        <4> QED BY <4>1, <4>2
      <3>4. drain' = AfterDrainOne(d) /\ UNCHANGED ring /\ drain.result = "none"
        BY <2>2 DEF PullNothing
      <3> HIDE DEF d
      <3> QED BY <2>1, <3>1, <3>3, <3>4
    <2>3. CASE PullPacket BY <2>3 DEF PullPacket, Waiting
    <2>4. CASE Deliver
      <3>1. PICK st \in {"kOk", Failed} :
                drain' = IF st = "kOk" THEN AfterDrainOne(drain.done)
                         ELSE [drain EXCEPT !.pc = "finish", !.result = Failed]
        BY <2>4 DEF Deliver
      <3>2. CASE st = "kOk" BY <2>1, <2>4, <3>1, <3>2 DEF Deliver
      <3>3. CASE st = Failed BY <2>4, <3>1, <3>3 DEF Deliver
      <3> QED BY <3>2, <3>3
    <2>5. CASE Finish BY <2>5 DEF Finish
    <2> QED BY <2>2, <2>3, <2>4, <2>5 DEF Await
  <1> QED BY <1>1, <1>2, <1>3, <1>4

LEMMA CoreStep == ASSUME CoreInv, [Next]_vars  PROVE CoreInv'
  <1>1. CASE Main BY <1>1, MainKeepsTypes, MainKeepsCounts, MainKeepsStages DEF CoreInv
  <1>2. CASE Await BY <1>2, AwaitKeepsCore
  <1>3. CASE UNCHANGED <<sinkKind, main, taken, left, failed, ring, keyframes, drain>>
    <2>1. CoreTypes' BY <1>3 DEF CoreInv, CoreTypes
    <2>2. Counts' BY <1>3 DEF CoreInv, Counts, Pushing
    <2>3. Stages' BY <1>3 DEF CoreInv, Stages, Flushed, Marked, IsFFmpeg
    <2>4. AwaitStages' BY <1>3 DEF CoreInv, AwaitStages
    <2> QED BY <2>1, <2>2, <2>3, <2>4 DEF CoreInv
  <1> QED
    BY <1>1, <1>2, <1>3
    DEF Next, Writer, Terminated, Abandoned, DrainOnly, vars, queueVars, encoderVars
-----------------------------------------------------------------------------
(* Sequences of packets 1..n. *)

Upto(n) == [i \in 1..n |-> i]

LEMMA UptoSeq == ASSUME NEW n \in Nat
                 PROVE  Upto(n) \in Seq(Nat) /\ Len(Upto(n)) = n
  <1>1. Upto(n) \in [1..n -> Nat]
    BY DEF Upto
  <1>2. Upto(n) \in Seq(Nat)
    BY <1>1, SeqDef
  <1>3. Len(Upto(n)) \in Nat /\ 1..Len(Upto(n)) = 1..n
    BY <1>1, <1>2, LenProperties
  <1> QED BY <1>2, <1>3

LEMMA UptoZero == Upto(0) = <<>>
  BY UptoSeq, EmptySeq

LEMMA UptoAppend == ASSUME NEW n \in Nat
                    PROVE  Append(Upto(n), n + 1) = Upto(n + 1)
  <1>1. Append(Upto(n), n + 1) \in Seq(Nat) /\ Len(Append(Upto(n), n + 1)) = n + 1
    BY UptoSeq, AppendProperties
  <1>2. Upto(n + 1) \in Seq(Nat) /\ Len(Upto(n + 1)) = n + 1
    BY UptoSeq
  <1>3. ASSUME NEW i \in 1..(n + 1)  PROVE Append(Upto(n), n + 1)[i] = Upto(n + 1)[i]
    BY UptoSeq, AppendProperties DEF Upto
  <1> QED BY <1>1, <1>2, <1>3, SeqEqual

(* A sample appended to the second of two sequences is appended to both. *)
LEMMA ConcatAppend ==
  ASSUME NEW S, NEW a \in Seq(S), NEW b \in Seq(S), NEW x \in S
  PROVE  a \o Append(b, x) = Append(a \o b, x)
  BY AppendIsConcat, ConcatProperties, ConcatAssociative, <<x>> \in Seq(S)

-----------------------------------------------------------------------------
(* FFmpegMuxer. *)

Samplings == [Media -> Seq(Nat)]

FfTypes ==
    /\ file \in Samplings /\ headers \in Nat /\ trailers \in Nat /\ damaged \in BOOLEAN
    /\ opened \in BOOLEAN /\ ioError \in BOOLEAN
    /\ pendingAudio \in Seq(Nat) /\ fragment \in Samplings

(* The muxer was given packets 1..given[m] of each media and has them all: *)
(* before the container is open no video, and the audio held back.         *)
FfHolds(given) ==
    IF opened
    THEN /\ pendingAudio = <<>>
         /\ \A m \in Media : file[m] \o fragment[m] = Upto(given[m])
         /\ headers = 1 /\ trailers = 0
    ELSE /\ given["video"] = 0
         /\ pendingAudio = Upto(given["audio"])
         /\ file = Nothing /\ fragment = Nothing
         /\ headers = 0 /\ trailers = 0

LEMMA NothingTyped == Nothing \in Samplings /\ \A m \in Media : Nothing[m] = <<>>
  BY EmptySeq DEF Nothing, Samplings

LEMMA WithTyped ==
  ASSUME NEW s \in Samplings, NEW m \in Media, NEW n \in Nat
  PROVE  With(s, m, n) \in Samplings
  <1>1. Append(s[m], n) \in Seq(Nat)
    BY AppendProperties DEF Samplings
  <1> QED BY <1>1 DEF With, Samplings

LEMMA JoinedTyped ==
  ASSUME NEW a \in Samplings, NEW b \in Samplings
  PROVE  Joined(a, b) \in Samplings
  <1>1. \A m \in Media : a[m] \o b[m] \in Seq(Nat)
    BY ConcatProperties DEF Samplings
  <1> QED BY <1>1 DEF Joined, Samplings

LEMMA AudioTyped ==
  ASSUME NEW s \in Seq(Nat)
  PROVE  /\ [Nothing EXCEPT !["audio"] = s] \in Samplings
         /\ [Nothing EXCEPT !["audio"] = s]["audio"] = s
         /\ [Nothing EXCEPT !["audio"] = s]["video"] = <<>>
  BY NothingTyped DEF Samplings, Media

(* What libavformat may do with a sample, as a whole. *)
Writes(samples, m, n, st) ==
    \/ WriteFails(samples, st) \/ WriteSample(samples, m, n, st)
    \/ m = "video" /\ PushKeyframe(samples, n, st)

LEMMA WritesTyped ==
  ASSUME FfTypes, NEW s \in Samplings, NEW m \in Media, NEW n \in Nat, NEW st,
         Writes(s, m, n, st)
  PROVE  /\ file' \in Samplings /\ fragment' \in Samplings
         /\ damaged' \in BOOLEAN /\ ioError' \in BOOLEAN
         /\ damaged => damaged'
  <1>1. CASE WriteFails(s, st) BY <1>1 DEF WriteFails, FfTypes
  <1>2. CASE WriteSample(s, m, n, st) BY <1>2, WithTyped DEF WriteSample, FfTypes
  <1>3. CASE CommitFragment(s, n, st)
    <2>1. With(Nothing, "video", n) \in Samplings
      BY WithTyped, NothingTyped, "video" \in Media DEF Media
    <2>2. file \in Samplings => Joined(file, s) \in Samplings
      BY JoinedTyped
    <2>3. file' \in Samplings /\ fragment' \in Samplings
      BY <1>3, <2>1, <2>2 DEF CommitFragment, FfTypes
    <2>4. \/ damaged' = damaged /\ ioError' = ioError
          \/ damaged' = TRUE /\ ioError' = TRUE
      BY <1>3 DEF CommitFragment, BytesLost
    <2>5. damaged' \in BOOLEAN /\ ioError' \in BOOLEAN
      BY <2>4, Zenon DEF FfTypes
    <2>6. damaged => damaged'
      BY <2>4, Zenon DEF FfTypes
    <2> QED BY <2>3, <2>5, <2>6
  <1>4. CASE HoldKeyframe(s, n, st)
    <2>1. file' \in Samplings /\ fragment' \in Samplings
      BY <1>4, WithTyped DEF HoldKeyframe, FfTypes, Media
    <2>2. \/ damaged' = damaged /\ ioError' = ioError
          \/ damaged' = TRUE /\ ioError' = TRUE
      BY <1>4 DEF HoldKeyframe, BytesLost
    <2>3. damaged' \in BOOLEAN /\ ioError' \in BOOLEAN
      BY <2>2, Zenon DEF FfTypes
    <2>4. damaged => damaged'
      BY <2>2, Zenon DEF FfTypes
    <2> QED BY <2>1, <2>3, <2>4
  <1> QED BY <1>1, <1>2, <1>3, <1>4 DEF Writes, PushKeyframe

LEMMA WritesKeep ==
  ASSUME FfTypes, NEW s \in Samplings, NEW given \in [Media -> Nat], NEW m \in Media,
         \A k \in Media : file[k] \o s[k] = Upto(given[k]),
         Writes(s, m, given[m] + 1, "kOk"), ~damaged'
  PROVE  \A k \in Media : file'[k] \o fragment'[k] =
                          Upto(IF k = m THEN given[m] + 1 ELSE given[k])
  <1> DEFINE n == given[m] + 1
  <1>0. n \in Nat /\ file[m] \in Seq(Nat) /\ s[m] \in Seq(Nat)
    BY DEF FfTypes, Samplings
  <1>1. file[m] \o Append(s[m], n) = Upto(n)
    <2>1. Append(Upto(given[m]), n) = Upto(n)
      BY UptoAppend
    <2>2. file[m] \o Append(s[m], n) = Append(file[m] \o s[m], n)
      <3>1. \A a, b \in Seq(Nat), x \in Nat : a \o Append(b, x) = Append(a \o b, x)
        BY ConcatAppend
      <3> QED BY <1>0, <3>1, Zenon
    <2> QED BY <2>1, <2>2
  <1>2. With(s, m, n)[m] = Append(s[m], n) /\ \A k \in Media : k # m => With(s, m, n)[k] = s[k]
    BY DEF With, Samplings
  <1>3. CASE fragment' = With(s, m, n) /\ file' = file
    BY <1>1, <1>2, <1>3
  <1>4. CASE m = "video" /\ fragment' = With(Nothing, "video", n) /\ file' = Joined(file, s)
    <2>1. fragment'["video"] = Append(<<>>, n) /\ fragment'["audio"] = <<>>
      BY <1>4, NothingTyped DEF With, Samplings, Media
    <2>2. \A k \in Media : file'[k] = Upto(given[k])
      BY <1>4 DEF Joined
    <2>3. file'["audio"] \o fragment'["audio"] = Upto(given["audio"])
      BY <2>1, <2>2, UptoSeq, ConcatEmptySeq DEF Media
    <2>4. Upto(given[m]) \in Seq(Nat) /\ <<>> \in Seq(Nat)
      BY UptoSeq, EmptySeq
    <2>5. Upto(given[m]) \o Append(<<>>, n) = Append(Upto(given[m]) \o <<>>, n)
      BY <1>0, <2>4, ConcatAppend
    <2>6. Append(Upto(given[m]) \o <<>>, n) = Upto(n)
      BY <2>4, UptoAppend, ConcatEmptySeq
    <2> QED BY <1>4, <2>1, <2>2, <2>3, <2>5, <2>6 DEF Media
  <1> QED
    BY <1>3, <1>4
    DEF Writes, WriteFails, WriteSample, PushKeyframe, CommitFragment, HoldKeyframe,
        BytesLost, Failed

LEMMA FfPushTyped ==
  ASSUME FfTypes, NEW n \in Nat, NEW key \in BOOLEAN, NEW st,
         FfPushVideo(n, key, st) \/ FfPushAudio(n, st)
  PROVE  FfTypes' /\ (damaged => damaged')
  <1> DEFINE Files == /\ file' \in Samplings /\ fragment' \in Samplings
                      /\ damaged' \in BOOLEAN /\ ioError' \in BOOLEAN
                      /\ damaged => damaged'
  <1>0. "video" \in Media /\ "audio" \in Media
    BY DEF Media
  <1>1. CASE PushUnopened(key, st) \/ (~opened /\ FfPushAudio(n, st))
    <2>1. UNCHANGED <<file, headers, trailers, damaged, opened, fragment, ioError>>
      BY <1>1 DEF PushUnopened, FfPushAudio, outputVars, ffVars
    <2>2. pendingAudio' \in Seq(Nat)
      BY <1>1, AppendProperties DEF PushUnopened, FfPushAudio, ffVars, FfTypes
    <2> QED BY <2>1, <2>2 DEF FfTypes
  <1>2. CASE ReplayFails(key, st)
    <2>1. PICK k \in 0..(Len(pendingAudio) - 1) :
              WriteFails([Nothing EXCEPT !["audio"] = SubSeq(pendingAudio, 1, k)], st)
      BY <1>2 DEF ReplayFails
    <2>2. SubSeq(pendingAudio, 1, k) \in Seq(Nat)
      <3>1. \A j \in 1..k : pendingAudio[j] \in Nat
        BY LenProperties, ElementOfSeq DEF FfTypes
      <3>2. k \in Int
        OBVIOUS
      <3> QED BY <3>1, <3>2, SubSeqProperties
    <2>3. fragment' \in Samplings
      BY <2>1, <2>2, AudioTyped DEF WriteFails
    <2>4. UNCHANGED <<file, damaged, ioError>>
      BY <2>1 DEF WriteFails
    <2> QED BY <1>2, <2>3, <2>4 DEF ReplayFails, FfTypes
  <1>3. CASE OpenAndReplay(n, key, st)
    <2>1. PushKeyframe([Nothing EXCEPT !["audio"] = pendingAudio], n, st)
      BY <1>3 DEF OpenAndReplay
    <2>2. Files
      BY <1>0, <2>1, WritesTyped, AudioTyped DEF Writes, FfTypes
    <2> QED BY <1>3, <2>2, EmptySeq DEF OpenAndReplay, FfTypes
  <1>4. CASE PushOpened(n, key, st)
    <2>1. Writes(fragment, "video", n, st)
      BY <1>4 DEF PushOpened, Writes
    <2>2. Files
      BY <1>0, <2>1, WritesTyped DEF FfTypes
    <2> QED BY <1>4, <2>2 DEF PushOpened, FfTypes
  <1>5. CASE opened /\ FfPushAudio(n, st)
    <2>1. Writes(fragment, "audio", n, st)
      BY <1>5 DEF FfPushAudio, Writes
    <2>2. Files
      BY <1>0, <2>1, WritesTyped DEF FfTypes
    <2> QED BY <1>5, <2>2 DEF FfPushAudio, FfTypes
  <1> QED BY <1>1, <1>2, <1>3, <1>4, <1>5 DEF FfPushVideo

LEMMA FfVideoKeeps ==
  ASSUME FfTypes, NEW given \in [Media -> Nat], NEW key \in BOOLEAN,
         FfHolds(given), given["video"] = 0 => key,
         FfPushVideo(given["video"] + 1, key, "kOk"), ~damaged'
  PROVE  FfHolds([given EXCEPT !["video"] = @ + 1])'
  <1> DEFINE n == given["video"] + 1
  <1>0. "video" \in Media /\ "audio" \in Media /\ given["audio"] \in Nat
    BY DEF Media
  <1>1. ~PushUnopened(key, "kOk") /\ ~ReplayFails(key, "kOk")
    BY DEF PushUnopened, ReplayFails, WriteFails, FfHolds, Failed
  <1>2. CASE OpenAndReplay(n, key, "kOk")
    <2> DEFINE s == [Nothing EXCEPT !["audio"] = pendingAudio]
    <2>1. s \in Samplings /\ s["audio"] = pendingAudio /\ s["video"] = <<>>
      BY AudioTyped DEF FfTypes
    <2>2. Writes(s, "video", n, "kOk")
      BY <1>2 DEF OpenAndReplay, Writes
    <2>3. /\ ~opened /\ given["video"] = 0 /\ pendingAudio = Upto(given["audio"])
          /\ file = Nothing /\ headers = 0 /\ trailers = 0
      BY <1>2 DEF OpenAndReplay, FfHolds
    <2>4. \A k \in Media : file[k] = <<>>
      BY <2>3, NothingTyped
    <2>5. \A k \in Media : file[k] \o s[k] = Upto(given[k])
      <3>1. \A k \in Media : <<>> \o s[k] = s[k]
        BY <2>1, ConcatEmptySeq DEF Samplings
      <3> QED BY <2>1, <2>3, <2>4, <3>1, UptoZero DEF Media
    <2> HIDE DEF s
    <2>6. \A k \in Media : file'[k] \o fragment'[k] =
                           Upto(IF k = "video" THEN n ELSE given[k])
      BY <1>0, <2>1, <2>2, <2>5, WritesKeep
    <2>7. opened' = TRUE /\ pendingAudio' = <<>> /\ headers' = 1 /\ trailers' = 0
      BY <1>2, <2>3 DEF OpenAndReplay
    <2> QED BY <2>6, <2>7 DEF FfHolds, Media
  <1>3. CASE PushOpened(n, key, "kOk")
    <2>1. Writes(fragment, "video", n, "kOk")
      BY <1>3 DEF PushOpened, Writes
    <2>2. \A k \in Media : file'[k] \o fragment'[k] =
                           Upto(IF k = "video" THEN n ELSE given[k])
      BY <1>0, <1>3, <2>1, WritesKeep DEF PushOpened, FfHolds, FfTypes
    <2> QED BY <1>3, <2>2 DEF PushOpened, FfHolds, Media
  <1> QED BY <1>1, <1>2, <1>3 DEF FfPushVideo

LEMMA FfAudioKeeps ==
  ASSUME FfTypes, NEW given \in [Media -> Nat], FfHolds(given),
         FfPushAudio(given["audio"] + 1, "kOk"), ~damaged'
  PROVE  FfHolds([given EXCEPT !["audio"] = @ + 1])'
  <1> DEFINE n == given["audio"] + 1
  <1>0. "video" \in Media /\ "audio" \in Media /\ given["audio"] \in Nat
    BY DEF Media
  <1>1. CASE ~opened
    <2>1. pendingAudio' = Upto(n)
      BY <1>0, <1>1, UptoAppend DEF FfPushAudio, FfHolds
    <2>2. UNCHANGED <<opened, fragment, file, headers, trailers>>
      BY <1>1 DEF FfPushAudio, outputVars
    <2>3. /\ [given EXCEPT !["audio"] = n]["audio"] = n
          /\ [given EXCEPT !["audio"] = n]["video"] = given["video"]
      BY <1>0
    <2> QED BY <1>1, <2>1, <2>2, <2>3 DEF FfHolds
  <1>2. CASE opened
    <2>1. Writes(fragment, "audio", n, "kOk")
      BY <1>2 DEF FfPushAudio, Writes
    <2>2. \A k \in Media : file'[k] \o fragment'[k] =
                           Upto(IF k = "audio" THEN n ELSE given[k])
      BY <1>0, <1>2, <2>1, WritesKeep DEF FfHolds, FfTypes
    <2> QED BY <1>2, <2>2 DEF FfPushAudio, FfHolds, Media
  <1> QED BY <1>1, <1>2

LEMMA FfFinishTyped ==
  ASSUME FfTypes, NEW st, FfFinish(st)
  PROVE  FfTypes' /\ (damaged => damaged')
  <1>1. file' \in Samplings /\ fragment' \in Samplings /\ pendingAudio' \in Seq(Nat)
    <2>1. fragment' = Nothing /\ pendingAudio' = <<>> /\ file' \in {file, Joined(file, fragment)}
      BY DEF FfFinish, outputVars
    <2> QED BY <2>1, JoinedTyped, NothingTyped, EmptySeq DEF FfTypes
  <1>2. headers' \in Nat /\ trailers' \in Nat
    BY DEF FfFinish, FfTypes, outputVars
  <1>3. opened' = FALSE /\ ioError' = FALSE /\ (damaged' = damaged \/ damaged' = TRUE)
    BY DEF FfFinish, outputVars, BytesLost
  <1>4. damaged' \in BOOLEAN /\ (damaged => damaged')
    BY <1>3, Zenon DEF FfTypes
  <1> QED BY <1>1, <1>2, <1>3, <1>4 DEF FfTypes

(* A Finish without error leaves the whole file, or none if no video came. *)
LEMMA FfFinishKeeps ==
  ASSUME FfTypes, NEW given \in [Media -> Nat], FfHolds(given), FfFinish("kOk"), ~damaged'
  PROVE  /\ headers' = trailers'
         /\ opened => headers' = 1 /\ \A m \in Media : file'[m] = Upto(given[m])
         /\ ~opened => /\ given["video"] = 0
                       /\ \A m \in Media : file'[m] = <<>>
  <1>1. CASE opened
    <2>1. file' = Joined(file, fragment) /\ trailers' = trailers + 1 /\ headers' = headers
      BY <1>1 DEF FfFinish, BytesLost
    <2>2. /\ headers = 1 /\ trailers = 0
          /\ \A m \in Media : file[m] \o fragment[m] = Upto(given[m])
      BY <1>1 DEF FfHolds
    <2>3. \A m \in Media : file'[m] = file[m] \o fragment[m]
      BY <2>1 DEF Joined
    <2>4. headers' = 1 /\ trailers' = 1
      BY <2>1, <2>2
    <2>5. \A m \in Media : file'[m] = Upto(given[m])
      BY <2>2, <2>3
    <2> QED BY <1>1, <2>4, <2>5, Zenon
  <1>2. CASE ~opened
    BY <1>2, NothingTyped DEF FfFinish, FfHolds, outputVars
  <1> QED BY <1>1, <1>2

-----------------------------------------------------------------------------
(* MediaCodecMuxer. *)

Samples == [media : Media, packet : Nat]

McTypes ==
    /\ muxer \in BOOLEAN /\ tracks \in SUBSET Media /\ started \in BOOLEAN
    /\ pending \in Seq(Samples) /\ handed \in Seq(Samples) /\ tmp \in Samplings
    /\ file \in Samplings /\ headers \in Nat /\ trailers \in Nat /\ damaged \in BOOLEAN

(* A sequence of samples that has, of each media m, the packets after      *)
(* lo[m] up to hi[m], in their order. *)
Interleaves(s, lo, hi) ==
    /\ \A m \in Media : \A p \in Nat :
          (\E i \in 1..Len(s) : s[i] = Sample(m, p)) <=> (lo[m] < p /\ p <= hi[m])
    /\ \A i, j \in 1..Len(s) : i < j /\ s[i].media = s[j].media => s[i].packet < s[j].packet

Counter == [Media -> Nat]

Plus(c, m) == [c EXCEPT ![m] = @ + 1]

None == [m \in Media |-> 0]

Written == [m \in Media |-> Len(tmp[m])]

(* The muxer was given packets 1..given[m] of each media and has them all: *)
(* in the temporary file or with the writer thread once it is started,     *)
(* held back before that. *)
McHolds(given) ==
    /\ "video" \notin tracks => given["video"] = 0
    /\ IF started
       THEN /\ pending = <<>>
            /\ \A m \in Media : tmp[m] = Upto(Len(tmp[m])) /\ Len(tmp[m]) <= given[m]
            /\ Interleaves(handed, Written, given)
       ELSE /\ handed = <<>> /\ tmp = Nothing
            /\ Interleaves(pending, None, given)

LEMMA NoSamples == Interleaves(<<>>, None, None)
  BY EmptySeq DEF Interleaves, None

LEMMA NoSamplesLeft ==
  ASSUME NEW lo \in Counter, NEW hi \in Counter, Interleaves(<<>>, lo, hi), NEW m \in Media
  PROVE  hi[m] <= lo[m]
  <1>1. hi[m] \in Nat /\ lo[m] \in Nat /\ Len(<<>>) = 0
    BY EmptySeq DEF Counter
  <1>2. ~(lo[m] < hi[m])
    BY <1>1 DEF Interleaves
  <1> QED BY <1>1, <1>2

LEMMA InterleavesAppend ==
  ASSUME NEW s \in Seq(Samples), NEW lo \in Counter, NEW hi \in Counter, NEW m \in Media,
         lo[m] <= hi[m], Interleaves(s, lo, hi)
  PROVE  /\ Append(s, Sample(m, hi[m] + 1)) \in Seq(Samples)
         /\ Interleaves(Append(s, Sample(m, hi[m] + 1)), lo, Plus(hi, m))
  <1> DEFINE x == Sample(m, hi[m] + 1)
             t == Append(s, x)
             n == Len(s)
  <1>1. x \in Samples /\ hi[m] \in Nat /\ lo[m] \in Nat /\ x.media = m /\ x.packet = hi[m] + 1
    BY DEF Samples, Sample, Counter
  <1>2. /\ n \in Nat /\ t \in Seq(Samples) /\ Len(t) = n + 1
        /\ \A i \in 1..n : t[i] = s[i]
        /\ t[n + 1] = x
    BY <1>1, AppendProperties, LenProperties
  <1> HIDE DEF t, n
  <1>3. ASSUME NEW k \in Media, NEW p \in Nat
        PROVE  (\E i \in 1..(n + 1) : t[i] = Sample(k, p))
               <=> (lo[k] < p /\ p <= Plus(hi, m)[k])
    <2>1. (\E i \in 1..(n + 1) : t[i] = Sample(k, p))
          <=> (\E i \in 1..n : s[i] = Sample(k, p)) \/ x = Sample(k, p)
      BY <1>2
    <2>2. (\E i \in 1..n : s[i] = Sample(k, p)) <=> (lo[k] < p /\ p <= hi[k])
      BY DEF Interleaves, n
    <2>3. x = Sample(k, p) <=> k = m /\ p = hi[m] + 1
      BY DEF Sample
    <2>4. Plus(hi, m)[k] = IF k = m THEN hi[m] + 1 ELSE hi[k]
      BY DEF Plus, Counter
    <2>5. hi[k] \in Nat /\ lo[k] \in Nat
      BY DEF Counter
    <2> HIDE DEF x
    <2> QED BY <1>1, <2>1, <2>2, <2>3, <2>4, <2>5
  <1>4. ASSUME NEW i \in 1..(n + 1), NEW j \in 1..(n + 1), i < j, t[i].media = t[j].media
        PROVE  t[i].packet < t[j].packet
    <2>1. i \in 1..n /\ t[i] = s[i]
      BY <1>2, <1>4
    <2>2. CASE j \in 1..n
      BY <1>2, <1>4, <2>1, <2>2 DEF Interleaves, n
    <2>3. CASE j = n + 1
      <3>0. s[i] \in Samples
        BY <2>1, ElementOfSeq DEF n
      <3>1. s[i] \in Samples /\ s[i] = Sample(s[i].media, s[i].packet)
        BY <3>0 DEF Samples, Sample
      <3>2. s[i].media = m /\ s[i].packet \in Nat
        BY <1>1, <1>2, <1>4, <2>1, <2>3, <3>1 DEF Samples
      <3>3. s[i].packet <= hi[m]
        BY <2>1, <3>1, <3>2 DEF Interleaves, n
      <3> QED BY <1>1, <1>2, <2>1, <2>3, <3>2, <3>3
    <2>4. n \in Nat
      BY <1>2
    <2>5. j \in 1..n \/ j = n + 1
      BY <2>4
    <2> QED BY <2>2, <2>3, <2>5
  <1>5. Len(t) = n + 1 /\ t \in Seq(Samples)
    BY <1>2
  <1>6. Interleaves(t, lo, Plus(hi, m))
    BY <1>3, <1>4, <1>5 DEF Interleaves
  <1> QED BY <1>5, <1>6 DEF t

LEMMA InterleavesTail ==
  ASSUME NEW s \in Seq(Samples), NEW lo \in Counter, NEW hi \in Counter,
         s # <<>>, Interleaves(s, lo, hi)
  PROVE  /\ Head(s).media \in Media /\ Tail(s) \in Seq(Samples)
         /\ Head(s).packet = lo[Head(s).media] + 1
         /\ lo[Head(s).media] < hi[Head(s).media]
         /\ Interleaves(Tail(s), Plus(lo, Head(s).media), hi)
  <1> DEFINE x == Head(s)
             t == Tail(s)
             n == Len(s)
             m == x.media
  <1>1. /\ x \in Samples /\ t \in Seq(Samples) /\ n \in Nat /\ n >= 1 /\ Len(t) = n - 1
        /\ \A i \in 1..(n - 1) : t[i] = s[i + 1]
        /\ x = s[1]
    BY HeadTailProperties, LenProperties, EmptySeq
  <1>2. m \in Media /\ x.packet \in Nat /\ x = Sample(m, x.packet)
    BY <1>1 DEF Samples, Sample
  <1> HIDE DEF x, t, n
  <1>3. lo[m] \in Nat /\ hi[m] \in Nat /\ lo[m] < x.packet /\ x.packet <= hi[m]
    BY <1>1, <1>2 DEF Interleaves, n, Counter
  <1>4. \A i \in 1..n : s[i] \in Samples
    BY ElementOfSeq DEF n
  <1>5. x.packet = lo[m] + 1
    <2>1. PICK i \in 1..n : s[i] = Sample(m, lo[m] + 1)
      BY <1>2, <1>3 DEF Interleaves, n
    <2>2. s[i].media = m /\ s[i].packet = lo[m] + 1
      BY <2>1 DEF Sample
    <2>3. i > 1 => s[1].packet < s[i].packet
      BY <1>1, <2>2 DEF Interleaves, n
    <2> QED BY <1>1, <1>2, <1>3, <2>2, <2>3
  <1>6. ASSUME NEW k \in Media, NEW p \in Nat
        PROVE  (\E i \in 1..(n - 1) : t[i] = Sample(k, p))
               <=> (Plus(lo, m)[k] < p /\ p <= hi[k])
    <2>1. (\E i \in 1..n : s[i] = Sample(k, p)) <=> (lo[k] < p /\ p <= hi[k])
      BY DEF Interleaves, n
    <2>2. Plus(lo, m)[k] = IF k = m THEN lo[m] + 1 ELSE lo[k]
      BY DEF Plus, Counter
    <2>3. lo[k] \in Nat /\ hi[k] \in Nat
      BY DEF Counter
    <2>4. x = Sample(k, p) <=> k = m /\ p = x.packet
      BY <1>2 DEF Sample
    <2>5. (\E i \in 1..n : s[i] = Sample(k, p))
          <=> x = Sample(k, p) \/ (\E i \in 1..(n - 1) : t[i] = Sample(k, p))
      <3>1. ASSUME NEW i \in 1..n, s[i] = Sample(k, p), i # 1
            PROVE  \E j \in 1..(n - 1) : t[j] = Sample(k, p)
        <4>1. i - 1 \in 1..(n - 1) /\ t[i - 1] = s[i]
          BY <1>1, <3>1
        <4> QED BY <3>1, <4>1
      <3>2. ASSUME NEW j \in 1..(n - 1), t[j] = Sample(k, p)
            PROVE  \E i \in 1..n : s[i] = Sample(k, p)
        <4>1. j + 1 \in 1..n /\ s[j + 1] = t[j]
          BY <1>1
        <4> QED BY <3>2, <4>1
      <3> QED BY <1>1, <3>1, <3>2
    <2>6. (\E i \in 1..(n - 1) : t[i] = Sample(k, p)) /\ k = m => p # x.packet
      <3>1. ASSUME NEW i \in 1..(n - 1), t[i] = Sample(k, p), k = m
            PROVE  p # x.packet
        <4>1. i + 1 \in 1..n /\ s[i + 1] = Sample(m, p) /\ s[i + 1].media = m
                /\ s[i + 1].packet = p /\ 1 < i + 1
          BY <1>1, <3>1 DEF Sample
        <4>2. s[1].packet < s[i + 1].packet
          BY <1>1, <4>1 DEF Interleaves, n
        <4> QED BY <1>1, <1>2, <4>1, <4>2
      <3> QED BY <3>1
    <2> QED BY <1>2, <1>3, <1>5, <2>1, <2>2, <2>3, <2>4, <2>5, <2>6
  <1>7. ASSUME NEW i \in 1..(n - 1), NEW j \in 1..(n - 1), i < j, t[i].media = t[j].media
        PROVE  t[i].packet < t[j].packet
    <2>1. /\ i + 1 \in 1..n /\ j + 1 \in 1..n /\ i + 1 < j + 1
          /\ t[i] = s[i + 1] /\ t[j] = s[j + 1]
      BY <1>1, <1>7
    <2> QED BY <1>7, <2>1 DEF Interleaves, n
  <1>8. Interleaves(t, Plus(lo, m), hi)
    BY <1>1, <1>6, <1>7 DEF Interleaves
  <1> QED BY <1>1, <1>2, <1>3, <1>5, <1>8 DEF x, t

LEMMA McPushTyped ==
  ASSUME McTypes, NEW m \in Media, NEW n \in Nat, NEW key \in BOOLEAN, NEW st,
         McPush(m, n, key, st)
  PROVE  McTypes'
  <1> DEFINE x == Sample(m, n)
  <1>1. x \in Samples
    BY DEF Sample, Samples
  <1>2. ASSUME NEW s \in Seq(Samples), HandOver(s, st)  PROVE handed' \in Seq(Samples)
    <2>1. CASE handed' = handed \o s
      BY <2>1, ConcatProperties DEF McTypes
    <2>2. ASSUME NEW k \in 1..Len(s), handed' = handed \o SubSeq(s, 1, k - 1)
          PROVE  handed' \in Seq(Samples)
      <3>1. SubSeq(s, 1, k - 1) \in Seq(Samples)
        <4>1. \A j \in 1..(k - 1) : s[j] \in Samples
          BY ElementOfSeq, LenProperties
        <4>2. k - 1 \in Int
          OBVIOUS
        <4> QED BY <4>1, <4>2, SubSeqProperties
      <3> QED BY <2>2, <3>1, ConcatProperties DEF McTypes
    <2> QED BY <1>2, <2>1, <2>2 DEF HandOver
  <1>3. UNCHANGED <<file, headers, trailers, damaged, tmp>>
    BY DEF McPush, outputVars, McPushFails, McPushDropped, McPushHeldBack, McStartFails,
           McStarts, McWrites, AddTrack
  <1>4. muxer' \in BOOLEAN /\ tracks' \in SUBSET Media
    BY DEF McPush, McTypes, McPushFails, McPushDropped, McPushHeldBack, McStartFails,
           McStarts, McWrites, AddTrack
  <1>5. /\ started' \in BOOLEAN /\ pending' \in Seq(Samples) /\ handed' \in Seq(Samples)
    <2> USE DEF McTypes
    <2>1. CASE McPushFails(m, key, st) \/ McPushDropped(m, key, st) \/ McStartFails(m, key, st)
      BY <2>1 DEF McPushFails, McPushDropped, McStartFails
    <2>2. CASE McPushHeldBack(m, n, key, st)
      BY <1>1, <2>2, AppendProperties DEF McPushHeldBack
    <2>3. CASE McStarts(m, n, key, st)
      <3>1. Append(pending, x) \in Seq(Samples)
        BY <1>1, AppendProperties
      <3> QED BY <1>2, <2>3, <3>1, EmptySeq DEF McStarts
    <2>4. CASE McWrites(m, n, key, st)
      <3>1. <<x>> \in Seq(Samples)
        BY <1>1
      <3> QED BY <1>2, <2>4, <3>1 DEF McWrites
    <2> QED BY <2>1, <2>2, <2>3, <2>4 DEF McPush
  <1> QED BY <1>3, <1>4, <1>5 DEF McTypes

LEMMA McPushKeeps ==
  ASSUME McTypes, NEW given \in Counter, NEW m \in Media, NEW key \in BOOLEAN,
         McHolds(given), m = "video" /\ given[m] = 0 => key,
         McPush(m, given[m] + 1, key, "kOk")
  PROVE  McHolds(Plus(given, m))'
  <1> DEFINE n == given[m] + 1
             x == Sample(m, n)
             more == Plus(given, m)
  <1>0. x \in Samples /\ given[m] \in Nat /\ None \in Counter /\ None[m] = 0
    BY DEF Sample, Samples, Counter, None
  <1>1. \A k \in Media : more[k] = IF k = m THEN n ELSE given[k]
    BY DEF Plus, Counter
  <1>2. AddTrack(m, key) /\ ~McPushFails(m, key, "kOk") /\ ~McStartFails(m, key, "kOk")
    BY DEF McPush, McPushFails, McStartFails, McPushDropped, McPushHeldBack, McStarts,
           McWrites, McHolds, Failed
  <1>3. UNCHANGED tmp /\ ("video" \notin tracks' => more["video"] = 0)
    <2>1. m \in tracks' /\ tracks \subseteq tracks' /\ UNCHANGED tmp
      BY <1>2 DEF AddTrack
    <2>2. "video" \in Media
      BY DEF Media
    <2> QED BY <1>1, <2>1, <2>2 DEF McHolds
  <1> HIDE DEF more
  <1>4. CASE McPushHeldBack(m, n, key, "kOk")
    <2>1. ~started /\ ~started' /\ UNCHANGED handed /\ pending' = Append(pending, x)
      BY <1>4 DEF McPushHeldBack
    <2>2. handed = <<>> /\ tmp = Nothing /\ Interleaves(pending, None, given)
      BY <2>1 DEF McHolds
    <2>3. Interleaves(pending', None, more)
      BY <1>0, <2>1, <2>2, InterleavesAppend DEF McTypes, more
    <2> QED BY <1>3, <2>1, <2>2, <2>3 DEF McHolds, more
  <1>5. CASE McStarts(m, n, key, "kOk")
    <2>1. ~started /\ started' = TRUE /\ pending' = <<>>
          /\ handed' = handed \o Append(pending, x)
      BY <1>5 DEF McStarts, HandOver, Failed
    <2>2. handed = <<>> /\ tmp = Nothing /\ Interleaves(pending, None, given)
      BY <2>1 DEF McHolds
    <2>3. Interleaves(Append(pending, x), None, more) /\ Append(pending, x) \in Seq(Samples)
      BY <1>0, <2>2, InterleavesAppend DEF McTypes, more
    <2>4. handed' = Append(pending, x)
      BY <2>1, <2>2, <2>3, ConcatEmptySeq
    <2>5. \A k \in Media : tmp'[k] = <<>> /\ Len(tmp'[k]) = 0
      BY <1>3, <2>2, NothingTyped, EmptySeq
    <2>6. Written' = None
      BY <2>5 DEF Written, None
    <2>7. \A k \in Media : tmp'[k] = Upto(Len(tmp'[k])) /\ Len(tmp'[k]) <= more[k]
      BY <1>0, <1>1, <2>5, UptoZero DEF Counter
    <2> QED BY <1>3, <2>1, <2>3, <2>4, <2>6, <2>7 DEF McHolds, more
  <1>6. CASE McWrites(m, n, key, "kOk")
    <2>1. started /\ started' = started /\ pending' = pending /\ handed' = handed \o <<x>>
      BY <1>6 DEF McWrites, HandOver, Failed
    <2>2. /\ pending = <<>> /\ Interleaves(handed, Written, given)
          /\ \A k \in Media : tmp[k] = Upto(Len(tmp[k])) /\ Len(tmp[k]) <= given[k]
      BY <2>1 DEF McHolds
    <2>3. Written \in Counter /\ Written[m] <= given[m]
      BY <2>2, LenProperties DEF Written, Counter, McTypes, Samplings
    <2>4. handed' = Append(handed, x)
      BY <1>0, <2>1, AppendIsConcat DEF McTypes
    <2>5. Interleaves(handed', Written, more)
      BY <1>0, <2>2, <2>3, <2>4, InterleavesAppend DEF McTypes, more
    <2>6. \A k \in Media : tmp'[k] = Upto(Len(tmp'[k])) /\ Len(tmp'[k]) <= more[k]
      <3>1. \A k \in Media : given[k] \in Nat /\ Len(tmp[k]) \in Nat
        BY LenProperties DEF Counter, McTypes, Samplings
      <3> QED BY <1>1, <1>3, <2>2, <3>1
    <2>7. Written' = Written
      BY <1>3 DEF Written
    <2> QED BY <1>3, <2>1, <2>2, <2>5, <2>6, <2>7 DEF McHolds, more
  <1> QED
    BY <1>2, <1>4, <1>5, <1>6 DEF McPush, McPushDropped, McHolds

LEMMA WriterTyped ==
  ASSUME McTypes, WriterWrites
  PROVE  McTypes'
  <1>1. Head(handed) \in Samples /\ Tail(handed) \in Seq(Samples)
    BY HeadTailProperties DEF WriterWrites, McTypes
  <1>2. Head(handed).media \in Media /\ Head(handed).packet \in Nat
    BY <1>1 DEF Samples
  <1>3. tmp' \in Samplings
    BY <1>2, WithTyped DEF WriterWrites, McTypes
  <1> QED BY <1>1, <1>3 DEF WriterWrites, McTypes, outputVars

LEMMA WriterKeeps ==
  ASSUME McTypes, NEW given \in Counter, McHolds(given), WriterWrites
  PROVE  McHolds(given)'
  <1> DEFINE x == Head(handed)
             m == x.media
  <1>1. handed # <<>> /\ handed' = Tail(handed) /\ tmp' = With(tmp, m, x.packet)
        /\ UNCHANGED <<tracks, started, pending>>
    BY DEF WriterWrites
  <1>2. /\ started = TRUE /\ pending = <<>> /\ Interleaves(handed, Written, given)
        /\ \A k \in Media : tmp[k] = Upto(Len(tmp[k])) /\ Len(tmp[k]) <= given[k]
    BY <1>1 DEF McHolds, McTypes
  <1>3. \A k \in Media : Len(tmp[k]) \in Nat /\ given[k] \in Nat /\ tmp[k] \in Seq(Nat)
    BY LenProperties DEF McTypes, Samplings, Counter
  <1>4. Written \in Counter
    BY <1>3 DEF Written, Counter
  <1>5. /\ m \in Media /\ x.packet = Len(tmp[m]) + 1 /\ Len(tmp[m]) < given[m]
        /\ Interleaves(handed', Plus(Written, m), given)
    <2>1. /\ m \in Media /\ x.packet = Written[m] + 1 /\ Written[m] < given[m]
          /\ Interleaves(Tail(handed), Plus(Written, m), given)
      BY <1>1, <1>2, <1>4, InterleavesTail DEF McTypes
    <2> QED BY <1>1, <2>1 DEF Written
  <1> HIDE DEF x, m
  <1>6. tmp'[m] = Upto(Len(tmp[m]) + 1) /\ \A k \in Media : k # m => tmp'[k] = tmp[k]
    <2>1. tmp'[m] = Append(tmp[m], Len(tmp[m]) + 1) /\ \A k \in Media : k # m => tmp'[k] = tmp[k]
      BY <1>1, <1>5 DEF With, McTypes, Samplings
    <2> QED BY <1>2, <1>3, <1>5, <2>1, UptoAppend
  <1>7. Len(tmp'[m]) = Len(tmp[m]) + 1
    BY <1>3, <1>5, <1>6, UptoSeq
  <1>8. Written' = Plus(Written, m)
    BY <1>5, <1>6, <1>7 DEF Written, Plus
  <1>9. \A k \in Media : tmp'[k] = Upto(Len(tmp'[k])) /\ Len(tmp'[k]) <= given[k]
    BY <1>2, <1>3, <1>5, <1>6, <1>7
  <1> QED BY <1>1, <1>2, <1>5, <1>8, <1>9 DEF McHolds

LEMMA McFinishTyped ==
  ASSUME McTypes, NEW st, McFinish(st)
  PROVE  McTypes'
  <1>1. handed' = handed
    BY DEF McFinish, Stopped
  <1>2. file' \in {file, tmp} /\ headers' \in {headers, headers + 1}
        /\ trailers' \in {trailers, trailers + 1} /\ (damaged' = damaged \/ damaged' = TRUE)
    BY DEF McFinish, outputVars, BytesLost
  <1>3. muxer' = FALSE /\ started' = FALSE /\ pending' = <<>> /\ tmp' = Nothing
        /\ UNCHANGED tracks
    BY DEF McFinish, McReleased
  <1>4. damaged' \in BOOLEAN
    BY <1>2, Zenon DEF McTypes
  <1>5. headers' \in Nat /\ trailers' \in Nat /\ file' \in Samplings
    BY <1>2 DEF McTypes
  <1>6. pending' \in Seq(Samples) /\ handed' \in Seq(Samples) /\ tmp' \in Samplings
    BY <1>1, <1>3, NothingTyped, EmptySeq DEF McTypes
  <1> QED BY <1>3, <1>4, <1>5, <1>6 DEF McTypes

LEMMA McFinishKeeps ==
  ASSUME McTypes, NEW given \in Counter, McHolds(given), McFinish("kOk")
  PROVE  /\ \A m \in Media : file'[m] = Upto(given[m])
         /\ headers' = headers + 1 /\ trailers' = trailers + 1
  <1>1. started /\ handed = <<>> /\ file' = tmp
        /\ headers' = headers + 1 /\ trailers' = trailers + 1
    BY DEF McFinish, Stopped, Failed
  <1>2. /\ Interleaves(<<>>, Written, given)
        /\ \A k \in Media : tmp[k] = Upto(Len(tmp[k])) /\ Len(tmp[k]) <= given[k]
    BY <1>1 DEF McHolds
  <1>3. Written \in Counter /\ \A k \in Media : Len(tmp[k]) \in Nat /\ given[k] \in Nat
    BY LenProperties DEF Written, Counter, McTypes, Samplings
  <1>4. \A k \in Media : given[k] <= Len(tmp[k])
    BY <1>2, <1>3, NoSamplesLeft DEF Written
  <1>5. \A k \in Media : given[k] = Len(tmp[k])
    BY <1>2, <1>3, <1>4
  <1> QED BY <1>1, <1>2, <1>5

-----------------------------------------------------------------------------
(* The sink Await has. *)

SinkTypes == FfTypes /\ McTypes /\ raw \in Seq(Nat) /\ rawDamaged \in BOOLEAN

LEMMA SinkTypesInit == Init => SinkTypes
  <1> SUFFICES ASSUME Init PROVE SinkTypes
    OBVIOUS
  <1>1. NoOutput /\ FfNew /\ McNew /\ raw = <<>> /\ rawDamaged = FALSE
    BY DEF Init
  <1>2. FfTypes
    BY <1>1, NothingTyped, EmptySeq DEF NoOutput, FfNew, FfTypes
  <1>3. McTypes
    BY <1>1, NothingTyped, EmptySeq DEF NoOutput, McNew, McTypes
  <1> QED BY <1>1, <1>2, <1>3, EmptySeq DEF SinkTypes

(* A sink's call leaves types as they are and forgets no loss of bytes. *)
SinkStep == SinkTypes' /\ (damaged => damaged') /\ (rawDamaged => rawDamaged')

LEMMA RawPushTyped ==
  ASSUME SinkTypes, NEW m \in Media, NEW n \in Nat, NEW st, RawPush(m, n, st)
  PROVE  raw' \in Seq(Nat) /\ rawDamaged' \in BOOLEAN /\ (rawDamaged => rawDamaged')
  <1>1. raw' \in Seq(Nat)
    BY AppendProperties DEF RawPush, SinkTypes
  <1>2. rawDamaged' = rawDamaged \/ rawDamaged' = TRUE
    BY DEF RawPush
  <1>3. rawDamaged' \in BOOLEAN /\ (rawDamaged => rawDamaged')
    BY <1>2, Zenon DEF SinkTypes
  <1> QED BY <1>1, <1>3

LEMMA RawFinishTyped ==
  ASSUME SinkTypes, NEW st, RawFinish(st)
  PROVE  raw' \in Seq(Nat) /\ rawDamaged' \in BOOLEAN /\ (rawDamaged => rawDamaged')
  <1>1. raw' \in Seq(Nat)
    <2>1. ASSUME NEW k \in 0..Len(raw), raw' = SubSeq(raw, 1, k)  PROVE raw' \in Seq(Nat)
      <3>1. \A j \in 1..k : raw[j] \in Nat
        BY ElementOfSeq, LenProperties DEF SinkTypes
      <3>2. k \in Int
        OBVIOUS
      <3> QED BY <2>1, <3>1, <3>2, SubSeqProperties
    <2> QED BY <2>1 DEF RawFinish, rawVars, SinkTypes
  <1>2. rawDamaged' = rawDamaged \/ rawDamaged' = TRUE
    BY DEF RawFinish, rawVars
  <1>3. rawDamaged' \in BOOLEAN /\ (rawDamaged => rawDamaged')
    BY <1>2, Zenon DEF SinkTypes
  <1> QED BY <1>1, <1>3

LEMMA FfPushEither ==
  ASSUME SinkTypes, NEW m \in Media, NEW n \in Nat, NEW st, FfPush(m, n, st)
  PROVE  FfTypes' /\ (damaged => damaged')
  <1>1. FfTypes /\ (n \in keyframes) \in BOOLEAN
    BY DEF SinkTypes
  <1> QED BY <1>1, FfPushTyped DEF FfPush

LEMMA SinkPushTyped ==
  ASSUME SinkTypes, NEW m \in Media, NEW n \in Nat, NEW st, SinkPush(m, n, st)
  PROVE  SinkStep
  <1>1. FfTypes' /\ UNCHANGED mcVars => McTypes'
    BY DEF FfTypes, McTypes, SinkTypes, mcVars
  <1>2. McTypes' /\ UNCHANGED ffVars => FfTypes'
    BY DEF FfTypes, McTypes, SinkTypes, ffVars
  <1>3. UNCHANGED rawVars => raw' = raw /\ rawDamaged' = rawDamaged
    BY DEF rawVars
  <1>4. UNCHANGED outputVars => damaged' = damaged
    BY DEF outputVars
  <1>5. CASE sinkKind = "FFmpegMuxer"
    <2>1. FfPush(m, n, st) /\ UNCHANGED mcVars /\ UNCHANGED rawVars
      BY <1>5 DEF SinkPush
    <2> QED BY <1>1, <1>3, <2>1, FfPushEither DEF SinkStep, SinkTypes
  <1>6. CASE sinkKind = "MediaCodecMuxer"
    <2>1. McPush(m, n, n \in keyframes, st) /\ UNCHANGED ffVars /\ UNCHANGED rawVars
      BY <1>6 DEF SinkPush
    <2>2. UNCHANGED outputVars
      BY <2>1 DEF McPush
    <2>3. McTypes'
      BY <2>1, McPushTyped, (n \in keyframes) \in BOOLEAN DEF SinkTypes
    <2> QED BY <1>2, <1>3, <1>4, <2>1, <2>2, <2>3 DEF SinkStep, SinkTypes
  <1>7. CASE sinkKind = "TeeSink"
    <2>1. PICK s1, s2 \in {"kOk", Failed} : FfPush(m, n, s1) /\ RawPush(m, n, s2)
      BY <1>7 DEF SinkPush, TeePush
    <2>2. UNCHANGED mcVars
      BY <1>7 DEF SinkPush
    <2> QED BY <1>1, <2>1, <2>2, FfPushEither, RawPushTyped DEF SinkStep, SinkTypes
  <1>8. CASE sinkKind \notin {"FFmpegMuxer", "MediaCodecMuxer", "TeeSink"}
    <2>1. RawPush(m, n, st) /\ UNCHANGED <<outputVars, ffVars, mcVars>>
      BY <1>8 DEF SinkPush
    <2>2. FfTypes' /\ McTypes'
      BY <2>1 DEF SinkTypes, FfTypes, McTypes, outputVars, ffVars, mcVars
    <2>3. damaged' = damaged
      BY <2>1 DEF outputVars
    <2> QED BY <2>1, <2>2, <2>3, RawPushTyped DEF SinkStep, SinkTypes
  <1> QED BY <1>5, <1>6, <1>7, <1>8

LEMMA SinkFinishTyped ==
  ASSUME SinkTypes, NEW st, SinkFinish(st)
  PROVE  SinkStep
  <1>1. FfTypes' /\ UNCHANGED mcVars => McTypes'
    BY DEF FfTypes, McTypes, SinkTypes, mcVars
  <1>2. McTypes' /\ UNCHANGED ffVars => FfTypes'
    BY DEF FfTypes, McTypes, SinkTypes, ffVars
  <1>3. UNCHANGED rawVars => raw' = raw /\ rawDamaged' = rawDamaged
    BY DEF rawVars
  <1>4. CASE sinkKind = "FFmpegMuxer"
    <2>1. FfFinish(st) /\ UNCHANGED mcVars /\ UNCHANGED rawVars
      BY <1>4 DEF SinkFinish
    <2> QED BY <1>1, <1>3, <2>1, FfFinishTyped DEF SinkStep, SinkTypes
  <1>5. CASE sinkKind = "MediaCodecMuxer"
    <2>1. McFinish(st) /\ UNCHANGED ffVars /\ UNCHANGED rawVars
      BY <1>5 DEF SinkFinish
    <2>2. damaged' = damaged \/ damaged' = TRUE
      BY <2>1 DEF McFinish, outputVars, BytesLost
    <2>3. damaged => damaged'
      BY <2>2, Zenon DEF SinkTypes, FfTypes
    <2> QED BY <1>2, <1>3, <2>1, <2>3, McFinishTyped DEF SinkStep, SinkTypes
  <1>6. CASE sinkKind = "TeeSink"
    <2>1. PICK s1, s2 \in {"kOk", Failed} : FfFinish(s1) /\ RawFinish(s2)
      BY <1>6 DEF SinkFinish, TeeFinish
    <2>2. UNCHANGED mcVars
      BY <1>6 DEF SinkFinish
    <2> QED BY <1>1, <2>1, <2>2, FfFinishTyped, RawFinishTyped DEF SinkStep, SinkTypes
  <1>7. CASE sinkKind \notin {"FFmpegMuxer", "MediaCodecMuxer", "TeeSink"}
    <2>1. RawFinish(st) /\ UNCHANGED <<outputVars, ffVars, mcVars>>
      BY <1>7 DEF SinkFinish
    <2>2. FfTypes' /\ McTypes'
      BY <2>1 DEF SinkTypes, FfTypes, McTypes, outputVars, ffVars, mcVars
    <2>3. damaged' = damaged
      BY <2>1 DEF outputVars
    <2> QED BY <2>1, <2>2, <2>3, RawFinishTyped DEF SinkStep, SinkTypes
  <1> QED BY <1>4, <1>5, <1>6, <1>7

LEMMA SinkUnchanged ==
  ASSUME SinkTypes, UNCHANGED sinkVars
  PROVE  SinkStep
  BY DEF sinkVars, outputVars, ffVars, mcVars, rawVars, SinkStep, SinkTypes, FfTypes, McTypes

(* The steps that touch a sink. *)
LEMMA SinkSteps ==
  ASSUME [Next]_vars
  PROVE  UNCHANGED sinkVars \/ Deliver \/ Finish \/ Writer
  <1>1. Main \/ Await \/ Writer \/ UNCHANGED vars
    BY DEF Next, Terminated, Abandoned
  <1>2. Main => UNCHANGED sinkVars
    BY DEF Main, MainOnly, LoopEnds, Encode, AudioPaced, CodecGives, QueuePush,
           EncodeReturns, CallFails, FlushReturns, MarkEos, Join
  <1>3. Await => UNCHANGED sinkVars \/ Deliver \/ Finish
    BY DEF Await, PullNothing, PullPacket
  <1>4. UNCHANGED vars => UNCHANGED sinkVars
    BY DEF vars
  <1> QED BY <1>1, <1>2, <1>3, <1>4

LEMMA SinkTypesStep ==
  ASSUME CoreInv, SinkTypes, [Next]_vars
  PROVE  SinkStep
  <1>1. CASE UNCHANGED sinkVars
    BY <1>1, SinkUnchanged
  <1>2. CASE Deliver
    <2>1. drain.media \in Media /\ ring[drain.media].oldest \in Nat
      BY DEF CoreInv, CoreTypes
    <2>2. PICK st \in {"kOk", Failed} : SinkPush(drain.media, ring[drain.media].oldest, st)
      BY <1>2 DEF Deliver
    <2> QED BY <2>1, <2>2, SinkPushTyped
  <1>3. CASE Finish
    <2>1. PICK st \in {"kOk", Failed} : SinkFinish(st)
      BY <1>3 DEF Finish
    <2> QED BY <2>1, SinkFinishTyped
  <1>4. CASE Writer
    <2>1. McTypes'
      BY <1>4, WriterTyped DEF Writer, SinkTypes
    <2>2. UNCHANGED <<outputVars, ffVars, rawVars>>
      BY <1>4 DEF Writer, WriterWrites
    <2> QED BY <2>1, <2>2 DEF SinkStep, SinkTypes, FfTypes, outputVars, ffVars, rawVars
  <1> QED BY <1>1, <1>2, <1>3, <1>4, SinkSteps

-----------------------------------------------------------------------------
(* AMediaMuxer's writer thread. *)

BuffersInv == Range(handed) \subseteq inFlight

LEMMA RangeAppended ==
  ASSUME NEW a \in Seq(Samples), NEW b \in Seq(Samples)
  PROVE  Range(a \o b) \subseteq Range(a) \cup Range(b)
  <1>1. ASSUME NEW i \in DOMAIN (a \o b)  PROVE (a \o b)[i] \in Range(a) \cup Range(b)
    <2>1. /\ DOMAIN a = 1..Len(a) /\ DOMAIN b = 1..Len(b) /\ Len(a) \in Nat /\ Len(b) \in Nat
          /\ DOMAIN (a \o b) = 1..(Len(a) + Len(b))
      BY LenProperties, ConcatProperties
    <2>2. (a \o b)[i] = IF i <= Len(a) THEN a[i] ELSE b[i - Len(a)]
      BY <2>1, ConcatProperties
    <2>3. CASE i <= Len(a)
      BY <2>1, <2>2, <2>3 DEF Range
    <2>4. CASE ~(i <= Len(a))
      <3>1. i - Len(a) \in DOMAIN b
        BY <2>1, <2>4
      <3> QED BY <2>2, <2>4, <3>1 DEF Range
    <2> QED BY <2>3, <2>4
  <1> QED BY <1>1 DEF Range

LEMMA RangeOfPrefix ==
  ASSUME NEW s \in Seq(Samples), NEW k \in 1..Len(s)
  PROVE  /\ SubSeq(s, 1, k - 1) \in Seq(Samples)
         /\ Range(SubSeq(s, 1, k - 1)) \subseteq Range(SubSeq(s, 1, k))
  <1>1. /\ \A i \in 1..k : s[i] \in Samples
        /\ \A i \in 1..(k - 1) : s[i] \in Samples
        /\ k \in Int /\ k - 1 \in Int /\ k \in Nat
    BY ElementOfSeq, LenProperties
  <1>2. /\ SubSeq(s, 1, k) \in Seq(Samples) /\ Len(SubSeq(s, 1, k)) = k
        /\ \A i \in 1..k : SubSeq(s, 1, k)[i] = s[i]
    BY <1>1, SubSeqProperties
  <1>3. /\ SubSeq(s, 1, k - 1) \in Seq(Samples) /\ Len(SubSeq(s, 1, k - 1)) = k - 1
        /\ \A i \in 1..(k - 1) : SubSeq(s, 1, k - 1)[i] = s[i]
    BY <1>1, SubSeqProperties
  <1>4. DOMAIN SubSeq(s, 1, k) = 1..k /\ DOMAIN SubSeq(s, 1, k - 1) = 1..(k - 1)
    BY <1>2, <1>3, LenProperties
  <1>5. \A i \in 1..(k - 1) : i \in 1..k /\ SubSeq(s, 1, k - 1)[i] = SubSeq(s, 1, k)[i]
    BY <1>1, <1>2, <1>3
  <1> QED BY <1>3, <1>4, <1>5 DEF Range

LEMMA RangeOfTail ==
  ASSUME NEW s \in Seq(Samples), s # <<>>
  PROVE  Range(Tail(s)) \subseteq Range(s)
  <1>1. /\ Tail(s) \in Seq(Samples) /\ Len(Tail(s)) = Len(s) - 1 /\ Len(s) \in Nat
        /\ \A i \in 1..Len(Tail(s)) : Tail(s)[i] = s[i + 1]
    BY HeadTailProperties, LenProperties
  <1>2. DOMAIN Tail(s) = 1..(Len(s) - 1) /\ DOMAIN s = 1..Len(s)
    BY <1>1, LenProperties
  <1>3. \A i \in DOMAIN Tail(s) : i + 1 \in DOMAIN s /\ Tail(s)[i] = s[i + 1]
    BY <1>1, <1>2
  <1> QED BY <1>3 DEF Range

LEMMA McPushKeepsBuffers ==
  ASSUME McTypes, BuffersInv, NEW m \in Media, NEW n \in Nat, NEW key, NEW st,
         McPush(m, n, key, st)
  PROVE  BuffersInv'
  <1>1. ASSUME NEW s \in Seq(Samples), HandOver(s, st)  PROVE BuffersInv'
    <2>1. CASE handed' = handed \o s /\ inFlight' = inFlight \cup Range(s)
      BY <2>1, RangeAppended DEF BuffersInv, McTypes
    <2>2. ASSUME NEW k \in 1..Len(s), handed' = handed \o SubSeq(s, 1, k - 1),
                 inFlight' = inFlight \cup Range(SubSeq(s, 1, k))
          PROVE  BuffersInv'
      <3>1. /\ SubSeq(s, 1, k - 1) \in Seq(Samples)
            /\ Range(SubSeq(s, 1, k - 1)) \subseteq Range(SubSeq(s, 1, k))
        BY RangeOfPrefix
      <3>2. Range(handed') \subseteq Range(handed) \cup Range(SubSeq(s, 1, k - 1))
        <4> DEFINE t == SubSeq(s, 1, k - 1)
        <4>1. t \in Seq(Samples) /\ handed \in Seq(Samples) /\ handed' = handed \o t
          BY <2>2, <3>1 DEF McTypes
        <4> HIDE DEF t
        <4>2. Range(handed \o t) \subseteq Range(handed) \cup Range(t)
          BY ONLY <4>1, RangeAppended
        <4>3. Range(handed') = Range(handed \o t)
          BY ONLY <4>1
        <4>4. Range(handed') \subseteq Range(handed) \cup Range(t)
          BY ONLY <4>2, <4>3
        <4> QED BY <4>4 DEF t
      <3> QED BY <2>2, <3>1, <3>2 DEF BuffersInv
    <2> QED BY <1>1, <2>1, <2>2 DEF HandOver
  <1>2. Sample(m, n) \in Samples
    BY DEF Sample, Samples
  <1>3. CASE UNCHANGED <<inFlight, handed>>
    BY <1>3 DEF BuffersInv
  <1>4. CASE McStarts(m, n, key, st)
    <2>1. Append(pending, Sample(m, n)) \in Seq(Samples)
      BY <1>2, AppendProperties DEF McTypes
    <2> QED BY <1>1, <1>4, <2>1 DEF McStarts
  <1>5. CASE McWrites(m, n, key, st)
    <2>1. <<Sample(m, n)>> \in Seq(Samples)
      BY <1>2
    <2> QED BY <1>1, <1>5, <2>1 DEF McWrites
  <1> QED
    BY <1>3, <1>4, <1>5
    DEF McPush, McPushFails, McPushDropped, McPushHeldBack, McStartFails

LEMMA BuffersStep ==
  ASSUME CoreInv, SinkTypes, BuffersInv, [Next]_vars
  PROVE  BuffersInv'
  <1>1. CASE UNCHANGED <<inFlight, handed>>
    BY <1>1 DEF BuffersInv
  <1>2. CASE Deliver
    <2>1. drain.media \in Media /\ ring[drain.media].oldest \in Nat
      BY DEF CoreInv, CoreTypes
    <2>2. PICK st \in {"kOk", Failed} : SinkPush(drain.media, ring[drain.media].oldest, st)
      BY <1>2 DEF Deliver
    <2>3. \/ McPush(drain.media, ring[drain.media].oldest,
                    ring[drain.media].oldest \in keyframes, st)
          \/ UNCHANGED mcVars
      BY <2>2 DEF SinkPush
    <2> QED BY <1>1, <2>1, <2>3, McPushKeepsBuffers DEF SinkTypes, mcVars
  <1>3. CASE Finish
    <2>1. PICK st \in {"kOk", Failed} : SinkFinish(st)
      BY <1>3 DEF Finish
    <2>2. McFinish(st) \/ UNCHANGED mcVars
      BY <2>1 DEF SinkFinish
    <2>3. McFinish(st) => handed' = handed /\ (handed = <<>> \/ inFlight' = inFlight)
      BY DEF McFinish, Stopped
    <2>4. Range(<<>>) = {}
      BY DEF Range
    <2> QED BY <1>1, <2>2, <2>3, <2>4 DEF BuffersInv, mcVars
  <1>4. CASE Writer
    <2>1. handed # <<>> /\ handed' = Tail(handed) /\ UNCHANGED inFlight
      BY <1>4 DEF Writer, WriterWrites
    <2>2. Range(Tail(handed)) \subseteq Range(handed)
      BY <2>1, RangeOfTail DEF SinkTypes, McTypes
    <2> QED BY <2>1, <2>2 DEF BuffersInv
  <1>5. UNCHANGED sinkVars => UNCHANGED <<inFlight, handed>>
    BY DEF sinkVars, mcVars
  <1> QED BY <1>1, <1>2, <1>3, <1>4, <1>5, SinkSteps

-----------------------------------------------------------------------------
(* Headers and trailers. *)

HeadersInv ==
    /\ opened => IsFFmpeg
    /\ drain.pc # "returned" => trailers = 0 /\ headers = IF opened THEN 1 ELSE 0
    /\ drain.pc = "returned" => headers \in 0..1 /\ trailers \in 0..headers

(* Only Finish makes Await return, and nothing changes the sink. *)
LEMMA SinkStays ==
  ASSUME CoreInv, [Next]_vars
  PROVE  /\ sinkKind' = sinkKind
         /\ Deliver \/ Finish \/ (drain'.pc = "returned" <=> drain.pc = "returned")
  <1>1. sinkKind' = sinkKind
    BY DEF Next, Main, MainOnly, LoopEnds, Encode, AudioPaced,
       CodecGives, QueuePush, EncodeReturns, CallFails, FlushReturns, MarkEos, Join, Await,
       PullNothing, PullPacket, Deliver, Finish, DrainOnly, Writer, Terminated, Abandoned, vars
  <1>2. CASE Await
    <2>1. CASE PullNothing
      BY <1>1, <2>1 DEF PullNothing, AfterDrainOne, CoreInv, CoreTypes
    <2>2. CASE PullPacket
      BY <1>1, <2>2 DEF PullPacket, CoreInv, CoreTypes
    <2> QED BY <1>1, <1>2, <2>1, <2>2 DEF Await
  <1>3. CASE ~Await
    BY <1>1, <1>3 DEF Next, Main, MainOnly, LoopEnds, Encode, AudioPaced, CodecGives, QueuePush,
       EncodeReturns, CallFails, FlushReturns, MarkEos, Join, Writer, Terminated,
       Abandoned, vars
  <1> QED BY <1>2, <1>3

LEMMA HeadersStep ==
  ASSUME CoreInv, SinkTypes, HeadersInv, [Next]_vars
  PROVE  HeadersInv'
  <1>1. sinkKind' = sinkKind /\ opened \in BOOLEAN
    BY SinkStays DEF SinkTypes, FfTypes
  <1>2. Deliver \/ Finish \/ (drain'.pc = "returned" <=> drain.pc = "returned")
    BY SinkStays
  <1>3. CASE UNCHANGED <<opened, headers, trailers>> /\ ~Deliver /\ ~Finish
    BY <1>1, <1>2, <1>3 DEF HeadersInv, IsFFmpeg
  <1>4. CASE Deliver
    <2>1. PICK st \in {"kOk", Failed} : SinkPush(drain.media, ring[drain.media].oldest, st)
      BY <1>4 DEF Deliver
    <2>2. drain.pc = "deliver" /\ drain'.pc \in {"pull", "finish"}
      BY <1>4 DEF Deliver, AfterDrainOne, CoreInv, CoreTypes
    <2>3. trailers = 0 /\ headers = IF opened THEN 1 ELSE 0
      BY <2>2 DEF HeadersInv
    <2>4. ASSUME NEW m \in Media, NEW n, NEW s, FfPush(m, n, s)
          PROVE  trailers' = 0 /\ headers' = IF opened' THEN 1 ELSE 0
      BY <2>3, <2>4 DEF FfPush, FfPushVideo, FfPushAudio, PushUnopened, ReplayFails,
         OpenAndReplay, PushOpened, outputVars, ffVars
    <2>5. CASE IsFFmpeg
      <3>1. \E s : FfPush(drain.media, ring[drain.media].oldest, s)
        BY <2>1, <2>5 DEF IsFFmpeg, SinkPush, TeePush
      <3>2. trailers' = 0 /\ headers' = IF opened' THEN 1 ELSE 0
        BY <2>4, <3>1 DEF CoreInv, CoreTypes
      <3> QED BY <1>1, <2>2, <2>5, <3>2 DEF HeadersInv, IsFFmpeg
    <2>6. CASE ~IsFFmpeg
      <3>1. UNCHANGED outputVars /\ UNCHANGED ffVars
        BY <2>1, <2>6 DEF SinkPush, McPush, IsFFmpeg
      <3> QED BY <1>1, <2>2, <2>3, <2>6, <3>1 DEF HeadersInv, IsFFmpeg, outputVars, ffVars
    <2> QED BY <2>5, <2>6
  <1>5. CASE Finish
    <2>1. PICK st \in {"kOk", Failed} : SinkFinish(st)
      BY <1>5 DEF Finish
    <2>2. drain.pc = "finish" /\ drain'.pc = "returned"
      BY <1>5 DEF Finish, CoreInv, CoreTypes
    <2>3. trailers = 0 /\ headers = IF opened THEN 1 ELSE 0
      BY <2>2 DEF HeadersInv
    <2>4. CASE IsFFmpeg
      <3>1. PICK s : FfFinish(s)
        BY <2>1, <2>4 DEF IsFFmpeg, SinkFinish, TeeFinish
      <3>2. opened' = FALSE /\ headers' = headers /\ trailers' \in {0, headers}
        BY <2>3, <3>1 DEF FfFinish, outputVars
      <3> QED BY <2>2, <2>3, <3>2 DEF HeadersInv
    <2>5. CASE ~IsFFmpeg
      <3>1. opened' = opened /\ opened = FALSE
        BY <1>1, <2>1, <2>5 DEF SinkFinish, IsFFmpeg, ffVars, HeadersInv
      <3>2. \/ headers' = headers /\ trailers' = trailers
            \/ headers' = headers + 1 /\ trailers' = trailers + 1
        BY <2>1, <2>5 DEF SinkFinish, IsFFmpeg, McFinish, outputVars
      <3> QED BY <2>2, <2>3, <3>1, <3>2 DEF HeadersInv
    <2> QED BY <2>4, <2>5
  <1>6. CASE Writer
    <2>1. UNCHANGED <<drain, opened, headers, trailers>>
      BY <1>6 DEF Writer, WriterWrites, outputVars, ffVars
    <2> QED BY <1>1, <2>1 DEF HeadersInv, IsFFmpeg
  <1>7. UNCHANGED sinkVars => UNCHANGED <<opened, headers, trailers>>
    BY DEF sinkVars, outputVars, ffVars
  <1> QED BY <1>3, <1>4, <1>5, <1>6, <1>7, SinkSteps

-----------------------------------------------------------------------------
(* The files. *)

(* The packets the sink was given. *)
Given == [m \in Media |->
    ring[m].oldest - (IF drain.pc = "deliver" /\ drain.media = m THEN 1 ELSE 0)]

(* Nothing was lost and nothing failed so far. *)
Sound == ~failed /\ ~damaged /\ ~rawDamaged /\ drain.result # Failed

Kept(given) ==
    /\ IsFFmpeg => FfHolds(given)
    /\ sinkKind = "MediaCodecMuxer" => McHolds(given)
    /\ HasRaw => raw = Upto(given["video"])

Whole(given) ==
    /\ HasAudio => /\ \A m \in Media : file[m] = Upto(given[m])
                   /\ trailers = headers
                   /\ given["video"] > 0 => headers = 1
    /\ HasRaw => raw = Upto(given["video"])

FilesInv ==
    \A given \in Counter : given = Given /\ Sound =>
        IF drain.pc = "returned" THEN Whole(given) ELSE Kept(given)

LEMMA GivenTyped == CoreInv => Given \in Counter
  <1>1. CoreInv => \A m \in Media :
            /\ ring[m].oldest \in Nat
            /\ drain.pc = "deliver" /\ drain.media = m => ring[m].oldest > 0
    BY DEF CoreInv, CoreTypes, AwaitStages
  <1> QED BY <1>1 DEF Given, Counter

LEMMA GivenSteps ==
  ASSUME CoreInv, [Next]_vars
  PROVE  /\ Given \in Counter
         /\ Deliver => /\ Given' = Plus(Given, drain.media)
                       /\ ring[drain.media].oldest = Given[drain.media] + 1
         /\ ~Deliver => Given' = Given
  <1>1. \A m \in Media : /\ ring[m].oldest \in Nat
                         /\ drain.pc = "deliver" /\ drain.media = m => ring[m].oldest > 0
    BY DEF CoreInv, CoreTypes, AwaitStages
  <1>2. Given \in Counter
    BY GivenTyped
  <1>3. CASE Deliver
    <2>1. drain.pc = "deliver" /\ drain'.pc # "deliver" /\ ring' = ring /\ drain.media \in Media
      BY <1>3 DEF Deliver, AfterDrainOne, CoreInv, CoreTypes
    <2>2. \A m \in Media : Given'[m] = ring[m].oldest
      BY <1>1, <2>1 DEF Given
    <2>3. Given[drain.media] = ring[drain.media].oldest - 1
      BY <2>1 DEF Given
    <2>4. \A m \in Media : m # drain.media => Given[m] = ring[m].oldest
      BY <1>1 DEF Given
    <2>5. \A m \in Media : Given'[m] = Plus(Given, drain.media)[m]
      BY <1>1, <1>2, <2>1, <2>2, <2>3, <2>4 DEF Plus, Counter
    <2>6. Given' = Plus(Given, drain.media)
      BY <2>5 DEF Given, Plus
    <2> QED BY <1>1, <1>2, <1>3, <2>1, <2>3, <2>6
  <1>4. CASE PullPacket
    <2>1. /\ drain.pc = "pull" /\ drain'.pc = "deliver" /\ drain'.media = drain.media
          /\ drain.media \in Media
          /\ \A m \in Media : ring'[m].oldest = IF m = drain.media THEN ring[m].oldest + 1
                                                ELSE ring[m].oldest
      BY <1>4 DEF PullPacket, CoreInv, CoreTypes
    <2>2. \A m \in Media : Given'[m] = Given[m]
      BY <1>1, <2>1 DEF Given
    <2> QED BY <1>2, <2>1, <2>2 DEF Given, Deliver
  <1>5. CASE ~Deliver /\ ~PullPacket
    <2>1. \A m \in Media : ring'[m].oldest = ring[m].oldest
      <3>1. CASE UNCHANGED ring BY <3>1
      <3>2. CASE QueuePush BY <3>2 DEF QueuePush, CoreInv, CoreTypes
      <3>3. CASE MarkEos BY <3>3 DEF MarkEos, CoreInv, CoreTypes
      <3> QED
        BY <1>5, <3>1, <3>2, <3>3
        DEF Next, Main, LoopEnds, Encode, AudioPaced, CodecGives, EncodeReturns, CallFails,
            FlushReturns, Join, queueVars, Await, PullNothing, Finish, Writer, Terminated,
            Abandoned, vars
    <2>2. drain' = drain \/ (drain.pc # "deliver" /\ drain'.pc # "deliver")
      BY <1>5
      DEF Next, Main, MainOnly, LoopEnds, Encode, AudioPaced, CodecGives, QueuePush,
          EncodeReturns, CallFails, FlushReturns, MarkEos, Join, Await, PullNothing,
          AfterDrainOne, Finish, Writer, Terminated, Abandoned, vars, CoreInv, CoreTypes
    <2> QED BY <1>2, <1>5, <2>1, <2>2 DEF Given
  <1> QED BY <1>3, <1>4, <1>5

LEMMA DeliverKeeps ==
  ASSUME CoreInv, SinkTypes, Deliver, NEW given \in Counter, given = Given, Kept(given),
         NEW m \in Media, m = drain.media, Sound'
  PROVE  Kept(Plus(given, m))'
  <1> DEFINE n == given[m] + 1
  <1>1. ring[m].oldest = n
    BY GivenSteps DEF Next, Await
  <1>2. PICK st \in {"kOk", Failed} :
            /\ SinkPush(m, n, st)
            /\ drain' = IF st = "kOk" THEN AfterDrainOne(drain.done)
                        ELSE [drain EXCEPT !.pc = "finish", !.result = Failed]
    BY <1>1 DEF Deliver
  <1>3. st = "kOk"
    BY <1>2 DEF Sound, CoreInv, CoreTypes
  <1>4. sinkKind' = sinkKind /\ failed' = failed
    BY DEF Deliver, DrainOnly, encoderVars
  <1>5. m = "video" /\ given[m] = 0 => n \in keyframes
    <2>1. ~failed
      BY <1>4 DEF Sound
    <2>2. ring[m].oldest <= ring[m].newest /\ ring[m].newest \in Nat
      BY DEF CoreInv, CoreTypes, Counts
    <2> QED BY <1>1, <2>1, <2>2 DEF CoreInv, Counts
  <1>6. ASSUME FfPush(m, n, "kOk"), FfHolds(given)  PROVE FfHolds(Plus(given, m))'
    <2>1. CASE m = "video"
      <3> DEFINE key == n \in keyframes
      <3>1. key \in BOOLEAN
        OBVIOUS
      <3>2. FfPushVideo(given["video"] + 1, key, "kOk") /\ (given["video"] = 0 => key)
        BY <1>5, <1>6, <2>1, <3>1 DEF FfPush
      <3> HIDE DEF key
      <3> QED BY <1>6, <3>1, <2>1, <3>2, FfVideoKeeps DEF SinkTypes, Sound, Plus, Counter
    <2>2. CASE m = "audio"
      BY <1>6, <2>2, FfAudioKeeps DEF FfPush, SinkTypes, Sound, Plus, Counter
    <2> QED BY <2>1, <2>2 DEF Media
  <1>7. ASSUME McPush(m, n, n \in keyframes, "kOk"), McHolds(given)
        PROVE  McHolds(Plus(given, m))'
    <2> DEFINE key == n \in keyframes
    <2>1. key \in BOOLEAN
      OBVIOUS
    <2>2. McPush(m, n, key, "kOk") /\ (m = "video" /\ given[m] = 0 => key)
      BY <1>5, <1>7
    <2> HIDE DEF key
    <2> QED BY <1>7, <2>1, <2>2, McPushKeeps DEF SinkTypes
  <1>8. ASSUME RawPush(m, n, "kOk"), raw = Upto(given["video"])
        PROVE  raw' = Upto(Plus(given, m)["video"])
    <2>1. raw' = IF m = "video" THEN Append(raw, n) ELSE raw
      BY <1>8 DEF RawPush, Failed
    <2>2. "video" \in Media
      BY DEF Media
    <2> QED BY <1>8, <2>1, <2>2, UptoAppend DEF Plus, Counter
  <1>9. CASE sinkKind = "FFmpegMuxer"
    <2>1. FfPush(m, n, "kOk")
      BY <1>2, <1>3, <1>9 DEF SinkPush
    <2> QED BY <1>4, <1>6, <1>9, <2>1 DEF Kept, IsFFmpeg, HasRaw
  <1>10. CASE sinkKind = "MediaCodecMuxer"
    <2>1. McPush(m, n, n \in keyframes, "kOk")
      BY <1>2, <1>3, <1>10 DEF SinkPush
    <2> QED BY <1>4, <1>7, <1>10, <2>1 DEF Kept, IsFFmpeg, HasRaw
  <1>11. CASE sinkKind = "TeeSink"
    <2>1. FfPush(m, n, "kOk") /\ RawPush(m, n, "kOk")
      BY <1>2, <1>3, <1>11 DEF SinkPush, TeePush, BothStatus, Failed
    <2> QED BY <1>4, <1>6, <1>8, <1>11, <2>1 DEF Kept, IsFFmpeg, HasRaw
  <1>12. CASE sinkKind = "FileConsumer"
    <2>1. RawPush(m, n, "kOk")
      BY <1>2, <1>3, <1>12 DEF SinkPush
    <2> QED BY <1>4, <1>8, <1>12, <2>1 DEF Kept, IsFFmpeg, HasRaw
  <1> QED
    BY <1>9, <1>10, <1>11, <1>12, EncodeFileAssumption DEF CoreInv, CoreTypes

(* At the end of both rings the sink was given every packet; and if the    *)
(* encoders lost none, every frame they took. *)
LEMMA AllGiven ==
  ASSUME CoreInv, drain.pc \in {"finish", "returned"}, drain.result # Failed
  PROVE  /\ \A m \in Media : Given[m] = ring[m].newest
         /\ IsFFmpeg /\ ~failed => \A m \in Media : ring[m].newest = taken[m]
         /\ IsFFmpeg /\ ~failed /\ Given["video"] = 0 => Given["audio"] = 0
  <1>1. drain.done = Media
    BY DEF CoreInv, AwaitStages
  <1>2. \A m \in Media : ring[m].closed /\ ring[m].oldest = ring[m].newest
    BY <1>1 DEF CoreInv, AwaitStages
  <1>3. \A m \in Media : Given[m] = ring[m].newest
    BY <1>2 DEF Given, CoreInv, CoreTypes
  <1>4. main.pc \in Marked
    <2>1. "video" \in Media
      BY DEF Media
    <2> QED BY <1>2, <2>1 DEF CoreInv, Stages
  <1>5. ASSUME IsFFmpeg, ~failed, NEW m \in Media  PROVE ring[m].newest = taken[m]
    <2>1. left[m] = taken[m]
      BY <1>4, <1>5 DEF CoreInv, Stages, Flushed
    <2>2. left[m] = ring[m].newest
      BY <1>4, <1>5 DEF CoreInv, CoreTypes, Counts, Pushing, Marked
    <2> QED BY <2>1, <2>2
  <1>6. ASSUME IsFFmpeg, ~failed, Given["video"] = 0  PROVE Given["audio"] = 0
    <2>1. "video" \in Media /\ "audio" \in Media
      BY DEF Media
    <2>2. taken["video"] = 0
      BY <1>3, <1>5, <1>6, <2>1
    <2>3. ~(taken["audio"] > 0) /\ taken["audio"] \in Nat
      BY <1>4, <2>1, <2>2 DEF CoreInv, CoreTypes, Stages, Marked
    <2> QED BY <1>3, <1>5, <1>6, <2>1, <2>3
  <1> QED BY <1>3, <1>5, <1>6

LEMMA FinishWhole ==
  ASSUME CoreInv, SinkTypes, HeadersInv, Finish, NEW given \in Counter, given = Given,
         Kept(given), Sound'
  PROVE  Whole(given)'
  <1>1. PICK st \in {"kOk", Failed} :
            /\ SinkFinish(st)
            /\ drain' = [drain EXCEPT !.pc = "returned",
                             !.result = IF @ = Failed THEN Failed ELSE st]
    BY DEF Finish
  <1>2. st = "kOk" /\ drain.result # Failed /\ drain.pc = "finish"
    BY <1>1 DEF Sound, CoreInv, CoreTypes, Finish
  <1>3. sinkKind' = sinkKind /\ failed' = failed
    BY DEF Finish, DrainOnly, encoderVars
  <1>4. IsFFmpeg /\ given["video"] = 0 => given["audio"] = 0
    BY <1>2, <1>3, AllGiven DEF Sound
  <1>5. given["video"] \in Nat /\ given["audio"] \in Nat
    BY DEF Counter, Media
  <1>6. ASSUME IsFFmpeg, FfFinish("kOk"), FfHolds(given)
        PROVE  /\ \A m \in Media : file'[m] = Upto(given[m])
               /\ trailers' = headers'
               /\ given["video"] > 0 => headers' = 1
    <2>1. /\ headers' = trailers'
          /\ opened => headers' = 1 /\ \A m \in Media : file'[m] = Upto(given[m])
          /\ ~opened => /\ given["video"] = 0
                        /\ \A m \in Media : file'[m] = <<>>
      BY <1>6, FfFinishKeeps DEF SinkTypes, Sound, Counter
    <2>2. CASE opened
      BY <2>1, <2>2
    <2>3. CASE ~opened
      <3>1. \A m \in Media : given[m] = 0
        BY <1>4, <1>6, <2>1, <2>3 DEF Media
      <3> QED BY <1>5, <2>1, <2>3, <3>1, UptoZero
    <2> QED BY <2>2, <2>3
  <1>7. RawFinish("kOk") => raw' = raw
    BY DEF RawFinish, Sound, rawVars
  <1>8. CASE sinkKind = "FFmpegMuxer"
    <2>1. FfFinish("kOk") /\ FfHolds(given)
      BY <1>1, <1>2, <1>8 DEF SinkFinish, Kept, IsFFmpeg
    <2> QED BY <1>3, <1>6, <1>8, <2>1 DEF Whole, IsFFmpeg, HasAudio, HasRaw
  <1>9. CASE sinkKind = "MediaCodecMuxer"
    <2>1. McFinish("kOk") /\ McHolds(given)
      BY <1>1, <1>2, <1>9 DEF SinkFinish, Kept
    <2>2. headers = 0 /\ trailers = 0
      BY <1>2, <1>9 DEF HeadersInv, IsFFmpeg
    <2>3. /\ \A m \in Media : file'[m] = Upto(given[m])
          /\ headers' = 1 /\ trailers' = 1
      BY <2>1, <2>2, McFinishKeeps DEF SinkTypes
    <2> QED BY <1>3, <1>9, <2>3 DEF Whole, HasAudio, HasRaw
  <1>10. CASE sinkKind = "TeeSink"
    <2>1. FfFinish("kOk") /\ RawFinish("kOk")
      BY <1>1, <1>2, <1>10 DEF SinkFinish, TeeFinish, BothStatus, Failed
    <2>2. FfHolds(given) /\ raw = Upto(given["video"])
      BY <1>10 DEF Kept, IsFFmpeg, HasRaw
    <2> QED BY <1>3, <1>6, <1>7, <1>10, <2>1, <2>2 DEF Whole, IsFFmpeg, HasAudio, HasRaw
  <1>11. CASE sinkKind = "FileConsumer"
    <2>1. RawFinish("kOk") /\ raw = Upto(given["video"])
      BY <1>1, <1>2, <1>11 DEF SinkFinish, Kept, HasRaw
    <2> QED BY <1>3, <1>7, <1>11, <2>1 DEF Whole, HasAudio, HasRaw
  <1> QED
    BY <1>8, <1>9, <1>10, <1>11, EncodeFileAssumption DEF CoreInv, CoreTypes

(* What was lost stays lost. *)
LEMMA SoundBefore ==
  ASSUME CoreInv, SinkTypes, [Next]_vars, Sound'
  PROVE  Sound
  <1>1. ~damaged /\ ~rawDamaged
    BY SinkTypesStep DEF SinkStep, Sound
  <1>2. failed' = failed \/ failed'
    BY DEF Next, Main, LoopEnds, Encode, AudioPaced, CodecGives, QueuePush, EncodeReturns,
       CallFails, FlushReturns, MarkEos, Join, Await, PullNothing, PullPacket, Deliver,
       Finish, DrainOnly, Writer, Terminated, Abandoned, encoderVars, vars
  <1>3. drain.result = Failed => drain'.result = Failed
    <2>1. CASE Await
      <3>1. CASE Finish
        BY <3>1 DEF Finish, CoreInv, CoreTypes
      <3>2. drain.pc \in {"pull", "deliver"} => drain.result # Failed
        BY DEF CoreInv, AwaitStages, Failed
      <3> QED BY <2>1, <3>1, <3>2 DEF Await, PullNothing, PullPacket, Deliver
    <2>2. CASE ~Await
      BY <2>2 DEF Next, Main, MainOnly, LoopEnds, Encode, AudioPaced, CodecGives, QueuePush,
         EncodeReturns, CallFails, FlushReturns, MarkEos, Join, Writer, Terminated,
         Abandoned, vars
    <2> QED BY <2>1, <2>2
  <1> QED BY <1>1, <1>2, <1>3 DEF Sound

LEMMA FilesStep ==
  ASSUME CoreInv, SinkTypes, HeadersInv, FilesInv, [Next]_vars
  PROVE  FilesInv'
  <1> SUFFICES ASSUME NEW given \in Counter, given = Given', Sound'
               PROVE  (IF drain.pc = "returned" THEN Whole(given) ELSE Kept(given))'
    BY DEF FilesInv
  <1>1. Sound
    BY SoundBefore
  <1>2. CASE Deliver
    <2>1. PICK before \in Counter : before = Given
      BY GivenSteps
    <2>2. PICK m \in Media : m = drain.media
      BY DEF CoreInv, CoreTypes
    <2>3. given = Plus(before, m)
      BY <1>2, <2>1, <2>2, GivenSteps
    <2>4. drain.pc = "deliver" /\ drain'.pc # "returned"
      BY <1>2 DEF Deliver, AfterDrainOne, CoreInv, CoreTypes
    <2>5. Kept(before)
      BY <1>1, <2>1, <2>4 DEF FilesInv
    <2>6. Kept(given)'
      BY <1>2, <2>1, <2>2, <2>3, <2>5, DeliverKeeps
    <2> QED BY <2>4, <2>6
  <1>3. CASE Finish
    <2>1. drain.pc = "finish" /\ drain'.pc = "returned"
      BY <1>3 DEF Finish, CoreInv, CoreTypes
    <2>2. given = Given
      BY <2>1, GivenSteps DEF Deliver
    <2>3. Kept(given)
      BY <1>1, <2>1, <2>2 DEF FilesInv
    <2> QED BY <1>3, <2>1, <2>2, <2>3, FinishWhole
  <1>4. CASE ~Deliver /\ ~Finish
    <2>1. given = Given
      BY <1>4, GivenSteps
    <2>2. /\ sinkKind' = sinkKind
          /\ drain'.pc = "returned" <=> drain.pc = "returned"
      BY <1>4, SinkStays
    <2>3. IF drain.pc = "returned" THEN Whole(given) ELSE Kept(given)
      BY <1>1, <2>1 DEF FilesInv
    <2>4. CASE UNCHANGED sinkVars
      <3>1. Whole(given) => Whole(given)'
        BY <2>2, <2>4 DEF Whole, HasAudio, HasRaw, sinkVars, outputVars, rawVars
      <3>2. Kept(given) => Kept(given)'
        BY <2>2, <2>4 DEF Kept, IsFFmpeg, HasRaw, FfHolds, McHolds, Written,
           sinkVars, outputVars, ffVars, mcVars, rawVars
      <3> QED BY <2>2, <2>3, <3>1, <3>2
    <2>5. CASE Writer
      <3>1. WriterWrites /\ UNCHANGED <<outputVars, ffVars, rawVars>>
        BY <2>5 DEF Writer, WriterWrites
      <3>2. Whole(given) => Whole(given)'
        BY <2>2, <3>1 DEF Whole, HasAudio, HasRaw, outputVars, rawVars
      <3>3. FfHolds(given) => FfHolds(given)'
        BY <3>1 DEF FfHolds, outputVars, ffVars
      <3>4. McHolds(given) => McHolds(given)'
        BY <3>1, WriterKeeps DEF SinkTypes
      <3>5. Kept(given) => Kept(given)'
        BY <2>2, <3>1, <3>3, <3>4 DEF Kept, IsFFmpeg, HasRaw, rawVars
      <3> QED BY <2>2, <2>3, <3>2, <3>5
    <2> QED BY <1>4, <2>4, <2>5, SinkSteps
  <1> QED BY <1>2, <1>3, <1>4

-----------------------------------------------------------------------------
(* The theorems. *)

IInv == CoreInv /\ SinkTypes /\ BuffersInv /\ HeadersInv /\ FilesInv

LEMMA InvInit == Init => IInv
  <1> SUFFICES ASSUME Init PROVE IInv
    OBVIOUS
  <1>1. CoreInv /\ SinkTypes
    BY CoreInit, SinkTypesInit
  <1>2. BuffersInv
    BY DEF Init, McNew, BuffersInv, Range
  <1>3. HeadersInv
    BY DEF Init, NoOutput, FfNew, HeadersInv
  <1>4. FilesInv
    <2> SUFFICES ASSUME NEW given \in Counter, given = Given  PROVE Kept(given)
      BY DEF FilesInv, Init
    <2>1. "video" \in Media /\ "audio" \in Media
      BY DEF Media
    <2>2. \A m \in Media : given[m] = 0
      BY DEF Init, Given
    <2>3. FfHolds(given)
      BY <2>1, <2>2, UptoZero DEF Init, NoOutput, FfNew, FfHolds
    <2>4. given = None
      BY <2>2 DEF Counter, None
    <2>5. McHolds(given)
      BY <2>1, <2>2, <2>4, NoSamples DEF Init, McNew, McHolds
    <2> QED BY <2>1, <2>2, <2>3, <2>5, UptoZero DEF Kept, Init
  <1> QED BY <1>1, <1>2, <1>3, <1>4 DEF IInv

LEMMA InvStep == IInv /\ [Next]_vars => IInv'
  BY CoreStep, SinkTypesStep, BuffersStep, HeadersStep, FilesStep DEF IInv, SinkStep

(* IInv holds in every state of the program.                               *)
THEOREM Invariance == Spec => []IInv
  BY InvInit, InvStep, PTL DEF Spec

(* Every variable keeps its type; a ring never holds more than its         *)
(* capacity (PacketQueue::Push under kBlock, packet_queue.cc), and a file  *)
(* has at most one header and one trailer, whichever sink the program has. *)
THEOREM FilesAreTyped == Spec => []TypeOK
  <1>1. IInv => TypeOK
    <2> SUFFICES ASSUME IInv PROVE TypeOK
      OBVIOUS
    <2>1. \A m \in Media :
             /\ taken[m] \in 0..MaxFrames[m] /\ left[m] \in 0..taken[m]
             /\ ring[m].newest \in 0..left[m] /\ ring[m].oldest \in 0..ring[m].newest
             /\ ring[m].newest - ring[m].oldest <= Capacity
      BY EncodeFileAssumption DEF IInv, CoreInv, CoreTypes, Counts
    <2>2. keyframes \subseteq 1..ring["video"].newest
      <3>1. ring["video"].newest \in Nat
        BY DEF IInv, CoreInv, CoreTypes, Media
      <3> QED BY <3>1 DEF IInv, CoreInv, CoreTypes, Counts
    <2>3. headers \in 0..1 /\ trailers \in 0..headers
      BY DEF IInv, HeadersInv
    <2>4. /\ sinkKind \in Sinks /\ main.media \in Media
          /\ drain.done \subseteq Media /\ drain.media \in Media
          /\ tracks \subseteq Media
      BY DEF IInv, CoreInv, CoreTypes, SinkTypes, McTypes
    <2> QED BY <2>1, <2>2, <2>3, <2>4 DEF TypeOK
  <1> QED BY <1>1, Invariance, PTL

(* AMediaMuxer's writer thread only reads sample copies that in_flight_    *)
(* keeps alive: MediaCodecMuxer releases them after AMediaMuxer_stop has   *)
(* joined that thread (mediacodec_muxer.cc), for any number of packets.    *)
THEOREM BuffersAreLive == Spec => []WriterReadsLiveBuffers
  <1>1. IInv => WriterReadsLiveBuffers
    BY DEF IInv, BuffersInv, WriterReadsLiveBuffers
  <1> QED BY <1>1, Invariance, PTL

(* When Await returned kOk, no encoder's call failed and no bytes were     *)
(* lost, the files hold every packet of both media, in order and once,     *)
(* and with FFmpeg those of every frame the encoders took: PacketQueue,    *)
(* its Await, the muxer's gating of the audio before the first keyframe    *)
(* and the end of the main thread (encode_file.cc) lose nothing between    *)
(* them, for any capacity and any number of frames.                        *)
THEOREM FilesAreWhole == Spec => []FileIsWhole
  <1>1. IInv => FileIsWhole
    <2> SUFFICES ASSUME IInv, drain.result = "kOk", ~failed, ~damaged, ~rawDamaged
                 PROVE  /\ HasAudio => /\ \A m \in Media : file[m] = Packets(m)
                                       /\ trailers = headers
                                       /\ ring["video"].newest > 0 => headers = 1
                        /\ HasRaw => raw = Packets("video")
                        /\ IsFFmpeg => \A m \in Media : ring[m].newest = taken[m]
      BY DEF FileIsWhole
    <2>1. drain.pc = "returned" /\ Sound
      BY DEF IInv, CoreInv, CoreTypes, AwaitStages, Sound, Failed
    <2>2. /\ \A m \in Media : Given[m] = ring[m].newest
          /\ IsFFmpeg => \A m \in Media : ring[m].newest = taken[m]
      BY <2>1, AllGiven DEF IInv, Sound
    <2>3. PICK given \in Counter : given = Given
      <3>1. Given \in Counter
        BY GivenTyped DEF IInv
      <3> QED BY <3>1
    <2>4. Whole(given)
      BY <2>1, <2>3 DEF IInv, FilesInv
    <2>5. \A m \in Media : Packets(m) = Upto(given[m])
      BY <2>2, <2>3 DEF Packets, Upto
    <2>6. "video" \in Media
      BY DEF Media
    <2> QED BY <2>2, <2>3, <2>4, <2>5, <2>6 DEF Whole
  <1> QED BY <1>1, Invariance, PTL

-----------------------------------------------------------------------------
(* The rings are queues.                                                   *)

(* Each ring implements MediaFifo, which the rings of PacketQueue are      *)
(* proved to implement too (RingsAreFifos of PacketQueue_proofs): what the *)
(* two programs do to a queue is in order, within its capacity and before  *)
(* its end (PacketQueue::Push, Pull and MarkEos, packet_queue.cc).         *)
THEOREM RingsAreQueues == Spec => RingsAreFifo
  <1>1. ASSUME Init, NEW m \in Media
        PROVE  Fifo(m)!Init
    BY <1>1 DEF Init, Fifo!Init
  <1>2. ASSUME CoreInv, [Next]_vars, NEW m \in Media
        PROVE  [Fifo(m)!Next]_(Fifo(m)!vars)
    <2> USE DEF CoreInv, CoreTypes, Fifo!vars
    <2>1. CASE UNCHANGED ring[m]
      BY <2>1
    <2>2. CASE QueuePush
      <3>1. CASE m = main.media
        <4>1. ~ring[m].closed
          BY <1>2, <2>2, <3>1 DEF QueuePush, Stages, Marked
        <4>2. /\ ring'[m].newest = ring[m].newest + 1
              /\ ring'[m].oldest = ring[m].oldest /\ ring'[m].closed = ring[m].closed
              /\ ring[m].newest - ring[m].oldest < Capacity
          BY <1>2, <2>2, <3>1 DEF QueuePush, HasRoom
        <4> QED BY <4>1, <4>2 DEF Fifo!Next, Fifo!Put
      <3>2. CASE m # main.media
        BY <2>1, <2>2, <3>2 DEF QueuePush
      <3> QED BY <3>1, <3>2
    <2>3. CASE MarkEos
      <3>1. CASE m = main.media
        <4>1. /\ ring'[m].newest = ring[m].newest /\ ring'[m].oldest = ring[m].oldest
              /\ ring'[m].closed = TRUE
          BY <1>2, <2>3, <3>1 DEF MarkEos
        <4> QED BY <4>1 DEF Fifo!Next, Fifo!Close
      <3>2. CASE m # main.media
        BY <2>1, <2>3, <3>2 DEF MarkEos
      <3> QED BY <3>1, <3>2
    <2>4. CASE PullPacket
      <3>1. CASE m = drain.media
        <4>1. /\ ring'[m].newest = ring[m].newest /\ ring'[m].oldest = ring[m].oldest + 1
              /\ ring'[m].closed = ring[m].closed /\ ring[m].oldest < ring[m].newest
          BY <1>2, <2>4, <3>1 DEF PullPacket, Waiting
        <4> QED BY <4>1 DEF Fifo!Next, Fifo!Take
      <3>2. CASE m # drain.media
        BY <2>1, <2>4, <3>2 DEF PullPacket
      <3> QED BY <3>1, <3>2
    <2>5. QueuePush \/ MarkEos \/ PullPacket \/ UNCHANGED ring
      BY <1>2 DEF Next, Main, Await, Writer, Terminated, Abandoned, LoopEnds, Encode,
         AudioPaced, CodecGives, EncodeReturns, CallFails, FlushReturns, Join,
         PullNothing, Deliver, Finish, vars, queueVars
    <2> QED BY <2>1, <2>2, <2>3, <2>4, <2>5
  <1>3. Init => \A m \in Media : Fifo(m)!Init
    BY <1>1
  <1>4. CoreInv /\ [Next]_vars
            => [\A m \in Media : [Fifo(m)!Next]_(Fifo(m)!vars)]_vars
    BY <1>2
  <1>5. IInv => CoreInv
    BY DEF IInv
  <1> QED
    BY <1>3, <1>4, <1>5, Invariance, PTL DEF Spec, RingsAreFifo

-----------------------------------------------------------------------------
(* Why the program ends: the safety half of ProgramEnds.                   *)

(* Which rings are closed, and how far Await is, where the main thread has *)
(* come to; and that Await is never at a ring it is done with.             *)
Closings ==
    /\ main.pc = "MarkEos" /\ main.media = "audio" => ring["video"].closed
    /\ main.pc \in {"join", "returned"} => \A m \in Media : ring[m].closed
    /\ main.pc = "returned" => drain.pc = "returned"
    /\ drain.pc \in {"pull", "deliver"} => drain.media \notin drain.done

(* Where Await goes from a ring. *)
LEMMA AfterOne ==
  ASSUME CoreTypes, NEW d \in SUBSET Media
  PROVE  /\ AfterDrainOne(d).done = d
         /\ AfterDrainOne(d).pc = IF d = Media THEN "finish" ELSE "pull"
         /\ d # Media /\ (drain.media \notin d \/ d = {drain.media})
                => AfterDrainOne(d).media \notin d
  BY DEF AfterDrainOne, CoreTypes, Other, Media

LEMMA ClosingsStep == CoreInv /\ Closings /\ [Next]_vars => Closings'
  <1> SUFFICES ASSUME CoreInv, Closings, [Next]_vars PROVE Closings'
    OBVIOUS
  <1> USE DEF CoreInv, CoreTypes, Closings, Go, MainOnly, queueVars, encoderVars
  <1>1. CASE Main
    <2>1. CASE MarkEos
      BY <2>1 DEF MarkEos, Media
    <2>2. CASE Join
      BY <2>2 DEF Join
    <2>3. CASE CallFails \/ FlushReturns
      BY <2>3 DEF CallFails, FlushReturns, AfterError, AfterFlush, InCall
    <2>4. CASE LoopEnds \/ AudioPaced \/ EncodeReturns \/ CodecGives \/ QueuePush
      BY <2>4 DEF LoopEnds, AudioPaced, EncodeReturns, CodecGives, QueuePush
    <2>5. ASSUME NEW m \in Media, Encode(m) PROVE Closings'
      BY <2>5 DEF Encode
    <2> QED BY <1>1, <2>1, <2>2, <2>3, <2>4, <2>5 DEF Main
  <1>2. CASE Await
    <2>1. main' = main /\ drain.pc # "returned"
      BY <1>2 DEF Await, PullNothing, PullPacket, Deliver, Finish, DrainOnly
    <2>2. \A m \in Media : ring'[m].closed = ring[m].closed
      BY <1>2 DEF Await, PullNothing, PullPacket, Deliver, Finish
    <2>3. drain'.pc \in {"pull", "deliver"} => drain'.media \notin drain'.done
      <3>1. CASE PullNothing
        <4> DEFINE d == IF ring[drain.media].closed
                        THEN drain.done \cup {drain.media} ELSE drain.done
        <4>1. drain' = AfterDrainOne(d) /\ drain.pc = "pull"
          BY <3>1 DEF PullNothing
        <4>2. d \in SUBSET Media /\ drain.media \notin drain.done /\ drain.done # Media
          BY <4>1 DEF AwaitStages
        <4>3. d # Media => drain.media \notin d \/ d = {drain.media}
          BY <4>2 DEF Media
        <4> HIDE DEF d
        <4> QED BY <4>1, <4>2, <4>3, AfterOne
      <3>2. CASE PullPacket
        BY <3>2 DEF PullPacket
      <3>3. CASE Deliver
        BY <3>3, AfterOne DEF Deliver
      <3>4. CASE Finish
        BY <3>4 DEF Finish
      <3> QED BY <1>2, <3>1, <3>2, <3>3, <3>4 DEF Await
    <2> QED BY <2>1, <2>2, <2>3 DEF Media
  <1>3. CASE UNCHANGED <<main, ring, drain>>
    BY <1>3
  <1> QED
    BY <1>1, <1>2, <1>3
    DEF Next, Writer, Terminated, Abandoned, DrainOnly, vars

(* Unless the sink has failed, whoever waits waits for one who does not:   *)
(* a main thread blocked on a full ring for an Await that is not done with *)
(* that ring, and a main thread at its join for an Await that finds both   *)
(* rings closed.  Await itself waits for nobody but the muxer's writer.    *)
WaitsEnd ==
    drain.result # Failed =>
        /\ \A m \in Media : Pushing(m) /\ ~HasRoom(m) =>
                 drain.pc \in {"pull", "deliver"} /\ m \notin drain.done
        /\ main.pc = "join" => \A m \in Media : ring[m].closed
        /\ main.pc = "returned" => drain.pc = "returned"

(* No wait of the program is circular: encoder, PacketQueue under kBlock,  *)
(* Await and the join of encode_file.cc.                                   *)
THEOREM WaitsAreForOthers == Spec => []WaitsEnd
  <1>1. Init => Closings
    BY DEF Init, Closings
  <1>2. CoreInv /\ Closings => WaitsEnd
    <2> SUFFICES ASSUME CoreInv, Closings, drain.result # Failed, NEW m \in Media,
                        Pushing(m)
                 PROVE  drain.pc \in {"pull", "deliver"} /\ m \notin drain.done
      BY DEF WaitsEnd, Closings
    <2>1. m \notin drain.done
      BY DEF CoreInv, AwaitStages, Stages, Pushing, Marked
    <2>2. drain.done # Media
      BY <2>1
    <2> QED BY <2>1, <2>2 DEF CoreInv, CoreTypes, AwaitStages
  <1>3. IInv => CoreInv
    BY DEF IInv
  <1> QED BY <1>1, <1>2, <1>3, ClosingsStep, Invariance, PTL DEF Spec

(* What is left to do, as a number: steps of the main thread for frames    *)
(* not taken and frames in a codec, of Await for packets in the rings, and *)
(* where the two threads are.                                              *)
Undone(m) == IF m \in drain.done THEN 0 ELSE 3

MediaWork(m) ==
    7 * (MaxFrames[m] - taken[m]) + 4 * (taken[m] - left[m])
        + 2 * (ring[m].newest - ring[m].oldest) + Undone(m)

MainWork ==
    CASE main.pc = "EncodePush" -> 17
      [] main.pc = "Encode"     -> 14
      [] main.pc = "audio"      -> 13
      [] main.pc = "frame"      -> 12
      [] main.pc = "FlushPush"  -> IF main.media = "video" THEN 11 ELSE 7
      [] main.pc = "Flush"      -> IF main.media = "video" THEN 8 ELSE 4
      [] main.pc = "MarkEos"    -> IF main.media = "video" THEN 3 ELSE 2
      [] main.pc = "join"       -> 1
      [] OTHER                  -> 0

AwaitWork ==
    CASE drain.pc = "deliver" -> 3
      [] drain.pc = "pull"    -> 2
      [] drain.pc = "finish"  -> 1
      [] OTHER                -> 0

WorkLeft == MediaWork("video") + MediaWork("audio") + MainWork + AwaitWork

(* Await polls a ring that is empty and open. *)
Polls == PullNothing /\ ~ring[drain.media].closed /\ UNCHANGED ring

(* No step adds work, and only polling and the muxer's writer, which reads *)
(* what it was handed, leave it as it is.                                  *)
WorkRunsOut ==
    [][WorkLeft' < WorkLeft \/ (WorkLeft' = WorkLeft /\ (Polls \/ Writer))]_vars

WorkNat ==
    /\ \A m \in Media : MediaWork(m) \in Nat
    /\ MainWork \in Nat /\ AwaitWork \in Nat /\ WorkLeft \in Nat

LEMMA WorkTyped == CoreInv => WorkNat
  <1> SUFFICES ASSUME CoreInv PROVE WorkNat
    OBVIOUS
  <1>1. ASSUME NEW m \in Media PROVE MediaWork(m) \in Nat
    <2>1. /\ MaxFrames[m] \in Nat /\ taken[m] \in Nat /\ left[m] \in Nat
          /\ ring[m].newest \in Nat /\ ring[m].oldest \in Nat
          /\ taken[m] <= MaxFrames[m] /\ left[m] <= taken[m]
          /\ ring[m].oldest <= ring[m].newest
      BY EncodeFileAssumption DEF CoreInv, CoreTypes, Counts
    <2>2. Undone(m) \in Nat
      BY DEF Undone
    <2> QED BY <2>1, <2>2 DEF MediaWork
  <1>2. MainWork \in Nat /\ AwaitWork \in Nat
    BY DEF MainWork, AwaitWork
  <1> QED BY <1>1, <1>2 DEF WorkNat, WorkLeft, Media

LEMMA WorkTypedNext == CoreInv' => WorkNat'
  BY WorkTyped, PTL

(* What a step that moves packets of m makes of its work. *)
LEMMA MediaMoves ==
  ASSUME CoreInv, CoreInv', NEW m \in Media
  PROVE  MediaWork(m)' - Undone(m)'
             = MediaWork(m) - Undone(m)
                   - 3 * (taken'[m] - taken[m]) - 4 * (left'[m] - left[m])
                   + 2 * (ring'[m].newest - ring[m].newest)
                   - 2 * (ring'[m].oldest - ring[m].oldest)
  <1>1. /\ MaxFrames[m] \in Nat /\ taken[m] \in Nat /\ left[m] \in Nat
        /\ ring[m].newest \in Nat /\ ring[m].oldest \in Nat
    BY EncodeFileAssumption DEF CoreInv, CoreTypes
  <1>2. /\ taken'[m] \in Nat /\ left'[m] \in Nat
        /\ ring'[m].newest \in Nat /\ ring'[m].oldest \in Nat
    BY DEF CoreInv, CoreTypes
  <1>3. Undone(m) \in Nat /\ Undone(m)' \in Nat
    BY DEF Undone
  <1> QED BY <1>1, <1>2, <1>3 DEF MediaWork

(* A step of the main thread touches one media, and not Await. *)
LEMMA MainWorks == ASSUME CoreInv, Main  PROVE WorkLeft' < WorkLeft
  <1>1. CoreInv'
    BY MainKeepsTypes, MainKeepsCounts, MainKeepsStages DEF CoreInv
  <1>2. /\ \A m \in Media : MediaWork(m) \in Nat /\ MediaWork(m)' \in Nat
        /\ MainWork \in Nat /\ MainWork' \in Nat /\ AwaitWork \in Nat
    BY WorkTyped, WorkTypedNext, <1>1 DEF WorkNat
  <1>3. AwaitWork' = AwaitWork /\ drain' = drain
    BY DEF Main, LoopEnds, Encode, AudioPaced, CodecGives, QueuePush, EncodeReturns,
       CallFails, FlushReturns, MarkEos, Join, MainOnly, AwaitWork
  <1>4. ASSUME NEW m \in Media,
               \A k \in Media : k # m => MediaWork(k)' = MediaWork(k),
               MediaWork(m)' + MainWork' < MediaWork(m) + MainWork
        PROVE  WorkLeft' < WorkLeft
    <2>1. m = "video" \/ m = "audio"
      BY DEF Media
    <2>2. "video" \in Media /\ "audio" \in Media
      BY DEF Media
    <2>3. CASE m = "video"
      BY <1>2, <1>3, <1>4, <2>2, <2>3 DEF WorkLeft
    <2>4. CASE m = "audio"
      BY <1>2, <1>3, <1>4, <2>2, <2>4 DEF WorkLeft
    <2> QED BY <2>1, <2>3, <2>4
  <1>5. ASSUME NEW m \in Media
        PROVE  /\ taken[m] \in Nat /\ left[m] \in Nat
               /\ ring[m].newest \in Nat /\ ring[m].oldest \in Nat
               /\ Undone(m) \in Nat /\ Undone(m)' = Undone(m)
    BY <1>3 DEF CoreInv, CoreTypes, Undone
  <1>6. \A m \in Media : UNCHANGED <<taken[m], left[m], ring[m].newest, ring[m].oldest>>
                            => MediaWork(m)' = MediaWork(m)
    BY <1>3 DEF MediaWork, Undone
  <1>7. \A m \in Media :
           MediaWork(m)' - Undone(m)'
               = MediaWork(m) - Undone(m)
                     - 3 * (taken'[m] - taken[m]) - 4 * (left'[m] - left[m])
                     + 2 * (ring'[m].newest - ring[m].newest)
                     - 2 * (ring'[m].oldest - ring[m].oldest)
    BY <1>1, MediaMoves
  <1>8. /\ taken \in [Media -> Nat] /\ left \in [Media -> Nat]
         /\ ring \in [Media -> [oldest : Nat, newest : Nat, closed : BOOLEAN]]
    BY DEF CoreInv, CoreTypes
  <1>9. main.media \in Media /\ main.pc \in MainPlaces
    BY DEF CoreInv, CoreTypes
  <1> USE DEF Go, MainOnly, encoderVars, queueVars
  <1>10. CASE LoopEnds \/ AudioPaced \/ EncodeReturns \/ FlushReturns \/ Join
    <2>1. \A m \in Media : MediaWork(m)' = MediaWork(m)
      BY <1>6, <1>10 DEF LoopEnds, AudioPaced, EncodeReturns, FlushReturns, Join
    <2>2. MainWork' < MainWork
      BY <1>9, <1>10
      DEF LoopEnds, AudioPaced, EncodeReturns, FlushReturns, Join, MainWork, AfterFlush
    <2> QED BY <1>2, <1>4, <1>9, <2>1, <2>2
  <1>11. ASSUME NEW m \in Media, Encode(m) PROVE WorkLeft' < WorkLeft
    <2>1. taken' = [taken EXCEPT ![m] = @ + 1] /\ left' = left /\ ring' = ring
      BY <1>11 DEF Encode
    <2>2. MediaWork(m)' = MediaWork(m) - 3
      <3>1. taken'[m] = taken[m] + 1 /\ left'[m] = left[m] /\ ring'[m] = ring[m]
        BY <1>8, <2>1
      <3> QED BY <1>2, <1>5, <3>1, <1>7
    <2>3. \A k \in Media : k # m => MediaWork(k)' = MediaWork(k)
      BY <1>6, <2>1
    <2>4. MainWork' <= MainWork + 2
      BY <1>11 DEF Encode, MainWork
    <2> QED BY <1>2, <1>4, <2>2, <2>3, <2>4
  <1>12. CASE CodecGives
    <2>1. PICK m \in Media : m = main.media
      BY <1>9
    <2>2. left' = [left EXCEPT ![m] = @ + 1] /\ taken' = taken /\ ring' = ring
      BY <1>12, <2>1 DEF CodecGives
    <2>3. MediaWork(m)' = MediaWork(m) - 4
      <3>1. taken'[m] = taken[m] /\ left'[m] = left[m] + 1 /\ ring'[m] = ring[m]
        BY <1>8, <2>2, <2>1
      <3> QED BY <1>2, <1>5, <3>1, <1>7
    <2>4. \A k \in Media : k # m => MediaWork(k)' = MediaWork(k)
      BY <1>6, <2>2
    <2>5. MainWork' <= MainWork + 3
      BY <1>9, <1>12 DEF CodecGives, InCall, MainWork
    <2> QED BY <1>2, <1>4, <2>3, <2>4, <2>5, <2>1
  <1>13. CASE QueuePush
    <2>1. PICK m \in Media : m = main.media
      BY <1>9
    <2>2. /\ left' = left /\ taken' = taken
          /\ \A k \in Media : k # m => ring'[k] = ring[k]
          /\ ring'[m].newest = ring[m].newest + 1 /\ ring'[m].oldest = ring[m].oldest
      BY <1>8, <1>13, <2>1 DEF QueuePush
    <2>3. MediaWork(m)' = MediaWork(m) + 2
      BY <1>2, <1>5, <2>2, <1>7
    <2>4. \A k \in Media : k # m => MediaWork(k)' = MediaWork(k)
      BY <1>6, <2>2
    <2>5. MainWork' = MainWork - 3
      BY <1>9, <1>13 DEF QueuePush, MainWork
    <2> QED BY <1>2, <1>4, <2>3, <2>4, <2>5, <2>1
  <1>14. CASE CallFails
    <2>1. PICK m \in Media : m = main.media
      BY <1>9
    <2>2. /\ taken' = taken /\ ring' = ring
          /\ left' = left \/ left' = [left EXCEPT ![m] = @ + 1]
      BY <1>14, <2>1 DEF CallFails
    <2>3. MediaWork(m)' <= MediaWork(m)
      <3>1. /\ taken'[m] = taken[m] /\ ring'[m] = ring[m]
            /\ left'[m] = left[m] \/ left'[m] = left[m] + 1
        BY <1>8, <2>2, <2>1
      <3> QED BY <1>2, <1>5, <3>1, <1>7
    <2>4. \A k \in Media : k # m => MediaWork(k)' = MediaWork(k)
      BY <1>6, <1>8, <2>2
    <2>5. MainWork' < MainWork
      BY <1>9, <1>14 DEF CallFails, InCall, AfterError, AfterFlush, MainWork, Media
    <2> QED BY <1>2, <1>4, <2>3, <2>4, <2>5, <2>1
  <1>15. CASE MarkEos
    <2>1. /\ taken' = taken /\ left' = left
          /\ \A m \in Media : /\ ring'[m].newest = ring[m].newest
                              /\ ring'[m].oldest = ring[m].oldest
      BY <1>9, <1>8, <1>15 DEF MarkEos
    <2>2. \A m \in Media : MediaWork(m)' = MediaWork(m)
      BY <1>6, <2>1
    <2>3. MainWork' < MainWork
      BY <1>9, <1>15 DEF MarkEos, MainWork, Media
    <2> QED BY <1>2, <1>4, <1>9, <2>2, <2>3
  <1> QED BY <1>10, <1>11, <1>12, <1>13, <1>14, <1>15 DEF Main

LEMMA AwaitWorks ==
  ASSUME CoreInv, Closings, Await
  PROVE  WorkLeft' < WorkLeft \/ (WorkLeft' = WorkLeft /\ Polls)
  <1>1. CoreInv'
    BY AwaitKeepsCore
  <1>2. /\ \A m \in Media : MediaWork(m) \in Nat /\ MediaWork(m)' \in Nat
        /\ MainWork \in Nat /\ AwaitWork \in Nat /\ AwaitWork' \in Nat
    BY WorkTyped, WorkTypedNext, <1>1 DEF WorkNat
  <1>3. MainWork' = MainWork /\ UNCHANGED <<main, taken, left>>
    BY DEF Await, PullNothing, PullPacket, Deliver, Finish, DrainOnly, encoderVars,
       MainWork
  <1>4. "video" \in Media /\ "audio" \in Media /\ Media = {"video", "audio"}
    BY DEF Media
  <1>5. ASSUME NEW m \in Media
        PROVE  /\ taken[m] \in Nat /\ left[m] \in Nat
               /\ ring[m].newest \in Nat /\ ring[m].oldest \in Nat
               /\ Undone(m) \in Nat /\ Undone(m)' \in Nat
    BY DEF CoreInv, CoreTypes, Undone
  <1>6. ASSUME UNCHANGED ring, drain'.done = drain.done
        PROVE  \A m \in Media : MediaWork(m)' = MediaWork(m)
    BY <1>3, <1>6 DEF MediaWork, Undone
  <1>7. ASSUME \A m \in Media : MediaWork(m)' = MediaWork(m)
        PROVE  WorkLeft' - WorkLeft = AwaitWork' - AwaitWork
    BY <1>2, <1>3, <1>4, <1>7 DEF WorkLeft
  <1>8. \A m \in Media :
           MediaWork(m)' - Undone(m)'
               = MediaWork(m) - Undone(m)
                     - 3 * (taken'[m] - taken[m]) - 4 * (left'[m] - left[m])
                     + 2 * (ring'[m].newest - ring[m].newest)
                     - 2 * (ring'[m].oldest - ring[m].oldest)
    BY <1>1, MediaMoves
  <1>9. drain.done \in SUBSET Media /\ drain.media \in Media
    BY DEF CoreInv, CoreTypes
  <1>10. WorkLeft \in Nat /\ WorkLeft' \in Nat
    BY WorkTyped, WorkTypedNext, <1>1 DEF WorkNat
  <1>11. /\ ring \in [Media -> [oldest : Nat, newest : Nat, closed : BOOLEAN]]
         /\ drain = [pc |-> drain.pc, media |-> drain.media,
                     done |-> drain.done, result |-> drain.result]
    BY DEF CoreInv, CoreTypes
  <1>12. /\ drain.pc \in {"pull", "deliver"} => drain.result = "none" /\ drain.done # Media
    BY DEF CoreInv, AwaitStages
  <1>13. ASSUME NEW d \in SUBSET Media
         PROVE  /\ AfterDrainOne(d).done = d
                /\ AfterDrainOne(d).pc = IF d = Media THEN "finish" ELSE "pull"
    BY AfterOne DEF CoreInv
  <1>14. CASE PullNothing
    <2>1. CASE ~ring[drain.media].closed
      <3>1. drain' = AfterDrainOne(drain.done) /\ UNCHANGED ring /\ Polls
        BY <1>14, <2>1 DEF PullNothing, Polls
      <3>2. drain'.pc = "pull" /\ drain'.done = drain.done /\ drain.pc = "pull"
        BY <1>9, <1>14, <1>12, <1>13, <3>1 DEF PullNothing
      <3>3. AwaitWork' = AwaitWork
        BY <3>2 DEF AwaitWork
      <3> QED BY <1>2, <1>6, <1>7, <1>10, <3>1, <3>2, <3>3
    <2>2. CASE ring[drain.media].closed
      <3>1. PICK m \in Media : m = drain.media
        BY <1>9
      <3> DEFINE d == drain.done \cup {m}
      <3>2. drain' = AfterDrainOne(d) /\ UNCHANGED ring /\ drain.pc = "pull"
        BY <1>14, <2>2, <3>1 DEF PullNothing
      <3>3. drain'.done = d /\ drain'.pc \in {"pull", "finish"}
        <4>1. d \in SUBSET Media
          BY <1>9
        <4> HIDE DEF d
        <4> QED BY <1>13, <3>2, <4>1
      <3>4. AwaitWork' <= AwaitWork
        BY <3>2, <3>3 DEF AwaitWork
      <3>5. CASE m \notin drain.done
        <4>1. /\ MediaWork(m)' = MediaWork(m) - 3
              /\ \A k \in Media : k # m => MediaWork(k)' = MediaWork(k)
          <5>1. MediaWork(m)' = MediaWork(m) - 3
            <6>1. Undone(m) = 3 /\ Undone(m)' = 0
              BY <3>3, <3>5 DEF Undone
            <6>2. /\ taken'[m] = taken[m] /\ left'[m] = left[m] /\ ring'[m] = ring[m]
              BY <1>3, <3>2
            <6> QED BY <1>2, <1>5, <1>8, <6>1, <6>2
          <5>2. ASSUME NEW k \in Media, k # m PROVE MediaWork(k)' = MediaWork(k)
            <6>1. k \in drain'.done <=> k \in drain.done
              BY <3>3, <5>2
            <6> QED BY <1>3, <3>2, <6>1 DEF MediaWork, Undone
          <5> QED BY <5>1, <5>2
        <4>2. m = "video" \/ m = "audio"
          BY <3>1, <1>4
        <4>3. CASE m = "video"
          BY <1>2, <1>3, <1>4, <3>4, <4>1, <4>3 DEF WorkLeft
        <4>4. CASE m = "audio"
          BY <1>2, <1>3, <1>4, <3>4, <4>1, <4>4 DEF WorkLeft
        <4> QED BY <4>2, <4>3, <4>4
      <3>6. m \notin drain.done
        BY <3>2, <3>1 DEF Closings
      <3> QED BY <3>5, <3>6
    <2> QED BY <2>1, <2>2
  <1>15. CASE PullPacket
    <2>1. PICK m \in Media : m = drain.media
      BY <1>9
    <2>2. /\ ring'[m].oldest = ring[m].oldest + 1 /\ ring'[m].newest = ring[m].newest
          /\ \A k \in Media : k # m => ring'[k] = ring[k]
          /\ drain'.done = drain.done
          /\ drain.pc = "pull" /\ drain'.pc = "deliver"
      BY <1>11, <1>15, <2>1 DEF PullPacket
    <2>3. Undone(m)' = Undone(m)
      BY <2>2 DEF Undone
    <2>4. MediaWork(m)' = MediaWork(m) - 2
      <3>1. /\ taken'[m] - taken[m] = 0 /\ left'[m] - left[m] = 0
            /\ ring'[m].newest - ring[m].newest = 0
            /\ ring'[m].oldest - ring[m].oldest = 1
        BY <1>3, <1>5, <2>2
      <3>2. MediaWork(m)' - Undone(m)
                = MediaWork(m) - Undone(m) - 3 * 0 - 4 * 0 + 2 * 0 - 2 * 1
        BY <1>8, <2>3, <3>1
      <3> QED BY <1>2, <1>5, <3>2
    <2>5. \A k \in Media : k # m => MediaWork(k)' = MediaWork(k)
      BY <1>3, <2>2 DEF MediaWork, Undone
    <2>6. AwaitWork' = AwaitWork + 1
      BY <2>2 DEF AwaitWork
    <2>7. m = "video" \/ m = "audio"
      BY <1>4
    <2>8. CASE m = "video"
      BY <1>2, <1>3, <1>4, <2>4, <2>5, <2>6, <2>8 DEF WorkLeft
    <2>9. CASE m = "audio"
      BY <1>2, <1>3, <1>4, <2>4, <2>5, <2>6, <2>9 DEF WorkLeft
    <2> QED BY <2>7, <2>8, <2>9
  <1>16. CASE Deliver \/ Finish
    <2>1. drain'.done = drain.done /\ UNCHANGED ring
      <3>1. CASE Deliver
        BY <1>9, <1>11, <1>13, <3>1 DEF Deliver
      <3>2. CASE Finish
        BY <1>11, <3>2 DEF Finish
      <3> QED BY <1>16, <3>1, <3>2
    <2>2. AwaitWork' < AwaitWork
      <3>1. CASE Deliver
        <4>1. drain.pc = "deliver" /\ drain'.pc \in {"pull", "finish"}
          BY <1>9, <1>11, <1>13, <3>1 DEF Deliver
        <4> QED BY <4>1 DEF AwaitWork
      <3>2. CASE Finish
        BY <3>2 DEF Finish, AwaitWork
      <3> QED BY <1>16, <3>1, <3>2
    <2> QED BY <1>2, <1>6, <1>7, <1>10, <2>1, <2>2
  <1> QED BY <1>14, <1>15, <1>16 DEF Await

(* Every step of the main thread and of Await, other than polling an empty *)
(* ring, brings the end nearer, and no step puts it off: encode_file.cc    *)
(* cannot run for ever without polling for ever.                           *)
THEOREM WorkIsFinite == Spec => [](WorkLeft \in Nat) /\ WorkRunsOut
  <1>1. (Init => Closings) /\ (IInv => CoreInv /\ WorkLeft \in Nat)
    BY WorkTyped DEF IInv, WorkNat, Init, Closings
  <1>2. CoreInv /\ Closings /\ [Next]_vars
          => [WorkLeft' < WorkLeft \/ (WorkLeft' = WorkLeft /\ (Polls \/ Writer))]_vars
    <2> SUFFICES ASSUME CoreInv, Closings, Next
                 PROVE  \/ WorkLeft' < WorkLeft
                        \/ WorkLeft' = WorkLeft /\ (Polls \/ Writer)
                        \/ UNCHANGED vars
      OBVIOUS
    <2>1. CASE Main BY <2>1, MainWorks
    <2>2. CASE Await BY <2>2, AwaitWorks
    <2>3. CASE Writer
      <3>1. UNCHANGED <<main, taken, left, ring, drain>>
        BY <2>3 DEF Writer, DrainOnly, encoderVars
      <3>2. WorkLeft' = WorkLeft
        BY <3>1 DEF WorkLeft, MediaWork, Undone, MainWork, AwaitWork
      <3> QED BY <2>3, <3>2
    <2>4. CASE Terminated \/ Abandoned
      BY <2>4 DEF Terminated, Abandoned
    <2> QED BY <2>1, <2>2, <2>3, <2>4 DEF Next
  <1> QED BY <1>1, <1>2, ClosingsStep, Invariance, PTL DEF Spec, WorkRunsOut
=============================================================================
