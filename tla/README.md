# Formal models of video_codec

TLA+ models of this repository from the first frame an application encodes to the
file it leaves behind and to the live stream: the encoders of both backends, the
packet queue between encoders and sinks, the muxers, the programs that compose
them, and the stream's lifecycle with its reconnect, backoff, bitrate and WebRTC
backend. TLC checks every model on small instances; TLAPS proves the most
important results for every value of the constants. Source paths below are
relative to `src/video_codec/`.

## The system

    encoders --Push--> PacketQueue --Await--> sink: muxer -> file
                                                    FileConsumer -> file
                                                    Stream
                                                      |
       caller --Init/Start/Stop/Release/Send*--> StreamImpl --+--> WebrtcBackend
                       reconnect worker --Connect--^   ^            |  WhipSession
                       transport threads --------------+-- status --+

| component | state it keeps | operations | what is hard | what makes it correct |
|---|---|---|---|---|
| packet queue (`codec/src/framework/queue`) | per media: slots, head, tail, count, eos, policy; a mutex and two condition variables | `Push`, `Pull`, `Await`, `MarkEos` | producers that block, a consumer that alternates two rings, end of stream in two steps, a sink that fails | FIFO, nothing lost unless the policy says so, no lost wakeup, everyone ends |
| stream lifecycle (`stream/src/core/stream_impl`) | status, backend, handler, worker thread, two atomics | `Init`, `Start`, `Stop`, `Release`, `SendVideo`, `SendAudio`, `UpdateConfig`, status callback | caller, worker and transport threads change one status; teardown against a retry under way | the worker is joined before what it uses is destroyed; teardown is final; drops are retried |
| reconnect backoff (`reconnect_handler`) | attempt count, ticks since the last retry | `OnDisconnected`, `OnConnected`, `Tick`, `Reset` | counts, words, boundaries | the schedule 1, 3, 7, 15, ... seconds |
| adaptive bitrate (`abr_controller`) | rate, good intervals | `Update`, `Reset` | unsigned arithmetic | floor <= rate <= cap; moves the right way |
| WebRTC backend, WHIP session (`stream/src/backend/webrtc`) | peer connection, session generation, nine atomic flags, WHIP worker | `Connect`, `Disconnect`, `Send*`, callbacks | callbacks of old sessions, waits with deadlines, HTTP on its own thread | answer, worker and send gate stay with their own session; an answered session is not left without a DELETE; `kStreaming` is not missed |
| encoders (`codec/src/framework/backend`, `api/encoder_lifecycle`, `api/codec_factory`) | codec handle, lifecycle state, sink | `Init`, `Encode`, `Poll`, `Flush`, `SetOutputSink`, `Release` | drains that stop half-way, sinks that refuse in mid-drain, hardware with few buffers, a flag that never comes | every frame out once, in order, unless an error said so; a codec whenever one is used; no lock-up; calls return |
| muxers (same directories) | file, tracks, held-back packets, the writer thread's buffers | `Push`, `Finish` | start gates on two media, a byte sink that fails late, a second thread inside AMediaMuxer | nothing held back is lost; buffers outlive their reader |
| programs (`codec/src/examples/encode_file.cc`, `stream/src/examples/encode_and_push.cc`) | the threads | - | flush, end of stream, drain and join against each other | the program ends, and its file is whole |
| registries, configuration, pixel utilities, mock backend | little or none | - | - | not modelled, see the end |

How the parts interact: encoder threads push into the queue and may block
there; one consumer thread runs `Await` and calls the sink (a muxer, a file, or
`StreamImpl::SendVideo`). `StreamImpl` calls its backend from two threads, the
caller's and the reconnect worker's, never holding `status_mtx_` across such a
call; the backend reports its state from the transport's threads through
`OnBackendStatusChange`. The worker ticks the `ReconnectHandler`, whose callback
is the retry; `SendVideo` feeds the `AbrController`, a successful `Connect`
resets it. Inside the WebRTC backend a third kind of thread, the WHIP worker,
posts the offer and hands the answer back to the thread waiting in `Connect`.

## Modules

| module | models |
|---|---|
| `PacketRing` | one `Ring`: its value and the functions on it that run under its mutex |
| `MediaFifo` | the abstract queue one media promises: an interval of packet numbers |
| `PacketQueue` | `PacketQueue` with the threads around it; EXTENDS `PacketRing`, implements `MediaFifo` once for each media (`QueueIsFifo`) |
| `MCPacketQueue` | the instances of it that TLC checks |
| `StreamCore` | `StreamImpl`'s lifecycle: caller, reconnect worker, transport callbacks |
| `ReconnectHandler` | the backoff that decides when `StreamCore`'s worker retries |
| `AbrController` | the bitrate's arithmetic; a part of `StreamSend` |
| `StreamSend` | `SendVideo` and `SendAudio` with the bitrate and the backpressure count, against reports and reconnects; EXTENDS `AbrController` |
| `WebrtcSession` | `WebrtcBackend` and `WhipSession`: the `Connect`/`Disconnect` that `StreamCore` sees from outside |
| `EncoderLifecycle` | the state machine all encoders share |
| `EncoderContract` | the abstract encoder: packets in frame order, none twice, none missing without an error |
| `Encoder` | what both backends' encoders share; EXTENDS `EncoderLifecycle` |
| `FFmpegEncoder`, `MediaCodecEncoder` | the encoders with the codec they drive; EXTEND `Encoder` |
| `CodecFactory` | an application, the factory and the encoder it gets; implements `EncoderContract`, with the frames a `kOk` Flush of Android drops excused (`EncoderKeepsContract`) |
| `MCCodecFactory` | the requests TLC checks |
| `Muxer` | what every sink leaves behind |
| `FFmpegMuxer`, `MediaCodecMuxer` | the muxers; EXTEND `Muxer` |
| `EncodeFile` | the programs: encoders as `EncoderContract` has them, rings as `MediaFifo` has them (`RingsAreFifo`), `Await` and the sinks |
| `MCEncodeFile` | the instance TLC checks |
| `*_proofs` | theorems about `PacketRing`, `PacketQueue`, `StreamCore`, `StreamSend`, `ReconnectHandler`, `WebrtcSession`, `CodecFactory`, `EncodeFile` |

The parts are composed by contract: `CodecFactory` shows that an encoder keeps
`EncoderContract`, `PacketQueue` that a ring is a `MediaFifo`, and `EncodeFile`
puts abstract encoders, abstract rings and detailed muxers together.

A definition whose comment begins "Plausible bug" is a mutated form of the
definition after it. No next-state relation uses it: each replaces its
definition to show that a property can fail.

### PacketRing, PacketQueue, MediaFifo

A packet is its number in the order its ring accepted packets. `PacketRing` has
the ring's fields under their own names (`slots`, `head`, `tail`, `count`,
`eos`) and the three updates `Push`, `Pop` and `MarkEos` make (`Stored`,
`Vacated`, `Closed`).

`PacketQueue` has two rings, the encoder threads (`producer`), the caller who
marks the end of stream (`marking`) and the consumer in `Await` (`drain`).
`PushStores`, `PushRejected`, `PushOverOldest` and `PushWaits` are the ways
through `Ring::Push`; a producer that waits has given the mutex up, and
`PushResumes` is its look at the predicate after a wakeup, asked for
(`NotifyNotFull`) or spurious. `MarkEos` closes the video ring, then the audio
ring, in two steps, and wakes no producer, as the code does. `PullPacket`,
`PullEmpty` and `PullEos` are the three results of a timed `Pop` inside
`DrainOne`; `SinkTakes`, `SinkRefuses` and `FinishSink` are what the sink
answers. `offered`, `accepted`, `pulled`, `delivered` and `finished` are history.

`MediaFifo` has no slots, indices or threads: packets `oldest+1 .. newest`. The
refinement mapping takes `oldest` to `accepted - count`.

### StreamCore

`state` is `status_.state`; `user` and `worker` are the places in the code where
the caller's and the worker's threads are; `stop` and `armed` are the two
atomics; `link` is the backend's session as `StreamImpl` can know it, and
`inflight` a report on its way in. A step ends where the code gives `status_mtx_`
up, calls the backend, or stores an atomic another thread acts on. `arming`
marks the window of `OnBackendStatusChange` between the test of `re_stop_` and
the exchange of `reconnect_armed_`: the mutex is held, and `StopReconnectWorker`,
which does not take it, can run there. `SendVideo` is there for the one report
it makes. External: `Transport` (what a backend may report, from which
state). `ReleaseReturns` waits for no callback, because nothing in `Release` or in
the backend's teardown does: one that is past the session check may still be
delivered after it.

### ReconnectHandler

Every method, with `attempt` and `elapsed` as in the code and unsigned
arithmetic on words of `Bits32` and `Bits64` bits. `clock` and `fired` are
history: ticks since the outage began, and when the last retry fired. `1 << n` is
the recursive function `Pow2`, cut to the word where the code cuts it.

### AbrController, StreamSend

`AbrController` has `Update` by the class of the loss (`high`, `mid`, `low`: above
5%, above 2%, the rest) and the constructor's clamp, in unsigned words of `Word`
values. What an `Update` read and what it writes are kept apart, because in
`StreamSend` `Reset` runs without `status_mtx_` on the thread that connects
(`ResetStoresRate`, `ResetStoresGood`) and an `Update` on the sending thread
(`Count` reads, `StoreRate` and `StoreGood` write, with `status_mtx_` held:
`Locked`). `sender` and `connector` are the places of the two threads, `gate` and
`loss` the backend's answers. `BackendReports` replaces `status_`, bitrate
included.

### WebrtcSession

A session is one `Connect`. `session_gen_` is only ever compared, so it is
modelled as `live`: the session it still stands for. `call` is where the control
thread is, `then` the call `TeardownConnection` is part of; `flags` holds the
seven atomics `ResetConnectState` clears, in one step each (`ResetsFlag`, `store` is
the next one), since late callbacks and `SendVideo` can store between them; `answer` is `answer_ready_` with
`connect_result_`, and `from`, history, says whose worker signalled it.
`IsCurrentSession` is a callback that passes the generation check; it acts in a
later step (`OnStateChange`, `OnLocalDescription`, `OnGatheringStateChange`,
`OnTrackOpen`, `OnTrackClosed`, then `SendOfferToWhip`), when its session may be
gone. The worker goes through `WhipCreateWorker`, `WhipSession::Create` (with
`io_mtx_` held while it posts, `IoHeld`), the generation check of the handlers,
and `CurrentPeerConnection`, which copies `pc_`. `server` says what became of
each session there: `kept`, `deleted`, `unlocated` when the reply that would have told
where it is was lost or rejected (`PostFails`), `undeleted` when its DELETE failed
(`Delete`, which forgets the resource in any case). External: `Transport`, the callbacks libdatachannel may make from which
of its states, one at a time for a connection.

### EncoderLifecycle, Encoder, FFmpegEncoder, MediaCodecEncoder, CodecFactory

A frame is its number in the order the encoder took it. A call that drains the
codec takes one step for each packet, because each goes to a sink that may refuse
it; `call` is that call, `last` the last to return with its `Status`. `taken`,
`coded`, `emitted` and `excused` are history: frames taken, out of the codec,
handed over, and those an error was returned for. The video and the audio encoder
of a backend are the same code but for what makes a frame unfit; a definition that
stands for both is mapped to one of the two files.

`FfInitFails` has the two halves of a failing `Init`: before and after `ctx_` is
replaced. `FfDrainPacket`, `FfDrainRefused`, `FfDrainFails` and `FfDrainEnds` are
what `avcodec_receive_packet` and the sink may answer. `MediaCodecEncoder` has the
hardware too: `input` and `output` are its buffers, and it works between and during
the calls (`HwEncodes`, `HwEmitsConfig`, `HwEndsStream`, `HwFails`); the application
draws in the surface also while `Poll` runs (`SurfaceDraw`). Frames drawn after the
signal of a `Flush` are not taken. A frame too
large for its input buffer is queued empty (`McEncodeFails`); `McFlush` and
`McFlushInput` are the two modes' end of stream; `McDrainEmpty` is
`TRY_AGAIN_LATER`, `DeadlinePasses` the deadline of the surface flush. `config`
says whether this codec still owes its codec-config buffer. After a new `Init` that
got no codec, `Flush` is legal and hands a null pointer to the library
(`McFlushNoCodec`, `FfFlushNoCodec`): `call` is then `crashed`, and nothing goes on. In
pull mode several packets of one drain overwrite each other (`ffmpeg_video.cc:216`),
and the caller gets the last; `emitted` counts them all, so what is said of it is
about push mode. External: libavcodec and AMediaCodec.

### Muxer, FFmpegMuxer, MediaCodecMuxer, EncodeFile

`file`, `headers` and `trailers` are what reached the byte sink, `damaged` history
of bytes lost behind it. A call of a sink is an action with its `Status` as a
parameter. In `FFmpegMuxer` libavformat collects samples in `fragment`, which a
keyframe or the trailer completes (`CommitFragment`), or not yet (`HoldKeyframe`);
either way the bytes written before are pushed on, and may be lost. Its I/O error sticks and shows at the next frame (`ioError`). `OpenAndReplay` is the
first keyframe: header, then the audio held back, then the frame.
`MediaCodecMuxer` holds packets back until both tracks are known, then hands
sample copies to a writer thread of AMediaMuxer (`handed`, `WriterWrites`) and keeps
them alive (`inFlight`) until `AMediaMuxer_stop` has joined it (`Stopped`).

`EncodeFile` has the main thread (`main`: encode a video frame, then its span of
audio; flush both; `MarkEos`; join), the drain thread (`drain`: `Await` by turns,
`Deliver`, `Finish`) and AMediaMuxer's writer (`Writer`). `sinkKind` is the sink the
program was built and called with; `TeePush` and `TeeFinish` are `TeeSink`.

## What each run checks

| run | instance | shows |
|---|---|---|
| `queue_policies` | capacity 2, up to 4 packets of each media, a sink that may fail, end of stream at any moment; one encoder thread for both media under `kBlock`, and one for each under every policy (`AllSetups`); 264,064 states | nothing lost but what `kLatest` drops, `Await` drains, no lost wakeup, FIFO refinement, every thread ends |
| `queue_abandoned` (violation) | the one encoder thread of `queue_policies` alone | end of stream does not release a blocked `Push` |
| `stream_lifecycle` | no constants: 14,459 states are all there are | worker joined before its parts go; one `Connect` at a time; teardown final; an armed reconnect is attempted; calls return |
| `stream_drop` (violation) | the same | a drop at the wrong moment is never retried |
| `stream_stop` (violation) | the same | `Stop` can leave the session up |
| `reconnect_backoff` | cap 30 s, 16- and 20-bit words, shift cap 18, 15 retries | retries exactly on the schedule 1, 3, 7, 15, 31, 61, 91, ...; retrying never ends |
| `reconnect_long_outage` (violation) | the same, 20 retries | the gap collapses to 0 |
| `stream_send` | start at 100, limits 700..1000, words of 12 bits, 2 packets of backpressure | bounds, direction, settling at the bound, audio comes back, whatever `Reset` and `Update` do to each other |
| `webrtc_session` | two sessions, replies lost or rejected, DELETEs that fail; 518,449 states | answers, worker and gate stay with their session; the last answered session is sent a DELETE; `kStreaming` not missed; calls return |
| `webrtc_late_callback` (violation) | the same | a late callback takes the next session's offer |
| `encoders` | six requests: each backend with video and audio, surface input, a backend that is not there; 4 frames, 2 input and 2 output buffers, sinks, codecs and hardware that fail at any step; 612,289 states | every order of calls keeps `EncoderContract`; no `Encode` without a codec; an FFmpeg flush empties the codec; buffers never lock up; calls that do not end the process return |
| `encode_file` | four sinks, rings of 2, 3 video and 2 audio frames, byte sinks and encoders that fail; 759,325 states | the file is whole when nothing failed; the writer thread reads live buffers only; its two rings refine `MediaFifo`, as those of `queue_policies` do; the program ends |

Why the bounds are enough:

- *Queue.* Capacity 2 with 4 packets makes head and tail wrap twice, and a ring be
  full, empty and in between. One encoder feeding both media is the worst case for
  blocking (`encode_file`), one for each media the worst for interleaving. The
  proofs lift the safety properties to every capacity, packet count and set of
  threads.
- *StreamCore* has no constants: its run is exhaustive.
- *Reconnect.* The real words cannot be explored (TLC's integers have 32 bits), so
  the shift cap keeps its place relative to the word: `ShiftCap = Bits64 - 2`.
  1000 is 125 * 8, so the shifted value is 0 from shift `Bits64 - 3` on: 61 in the
  code, 17 in the runs. 15 retries are well past the first gap of 30 s (the
  6th) and short of the collapse.
- *StreamSend.* Every rate reachable between the limits is explored, with the start
  below the floor (the clamp) and limits where halves, quarters and eighths cross
  both. 4096 stands for 2^32: no sum comes near either. 2 stands for the 100 packets
  of backpressure, of which only reaching the limit and being cleared show.
- *WebRTC.* Two sessions are needed for a late callback, worker or frame of one to
  meet the next, and the safety properties compare a session with the newest only;
  the proof covers any number.
- *Encoders.* With 4 frames and 2 buffers on each side the codec is full on both
  sides, on one, and on none, and a second `Init` follows a first flush. The model
  prescribes no order of calls: between two calls the application may make any, legal
  or not (`Idle` is the only condition on that), until one ends the process; a call the
  lifecycle refuses returns its status. `NeverWedged` needs the
  second output buffer: the codec-config buffer fills one without an `Encode`.
- *EncodeFile.* Rings of 2 with 3 video frames fill while the drain thread waits on the
  other media; 2 audio frames are one held back and one not, or both. The main
  thread may stop its loop at any frame.

The fairness assumed:

- *Queue.* Encoders and `Await` go on running: they only wait on condition variables
  or deadlines. The end of stream is owed only once the encoders are done, as in
  the examples, which mark it after the encode loop. Spurious wakeups are owed
  nothing.
- *StreamCore.* Calls under way, callbacks under way and the worker go on. Strong
  fairness is used where a step needs `status_mtx_`: a thread that keeps asking for
  it gets it although others take it in between, and where a tick becomes due
  after some that are not, which `reconnect_backoff` shows (`AlwaysRetriesAgain`).
  Nothing is owed by the caller, the network or `Connect`'s outcome.
- *Reconnect.* The worker ticks.
- *StreamSend.* Calls return, and video goes on being sent. That is strong fairness:
  `Await` takes the two media by turns, so audio cannot keep video out although it
  disables it for a while.
- *Encoders.* A call in progress goes on, because every wait inside it has a timeout,
  and so does the hardware; nothing is owed by the application. The surface
  flush's deadline is part of the call.
- *EncodeFile.* The three threads go on; what the sinks and encoders answer is
  free.
- *WebRTC.* The control thread, because both waits of `Connect` have deadlines, and
  the worker, because the HTTP client has a total timeout. Callbacks and frames are
  owed nothing.

## What is proved

Safety only; every theorem is for all values of the constants under the named
assumptions of the modules (`CapacityAssumption`, `QueueAssumption`,
`RateAssumption`, `BackpressureAssumption`, `SessionAssumption`, `EncoderAssumption`,
`SlotAssumption`, `BackoffAssumption`, `EncodeFileAssumption`). What a theorem needs
beyond them is an ASSUME of its own, named below with the reason the code meets it.

Of the properties that something happens in the end, their safety halves are
proved: a measure that every step of a call lowers and no other thread raises, and
that whoever waits waits for somebody who can go on. What is left to TLC is the
step from there to termination, which is where fairness comes in.

- `PacketQueue_proofs`: the inductive invariant is `QueueInv`. The types and
  `RingHoldsNewest` alone are not inductive with `NothingLost` and
  `AwaitOkMeansDrained`: one needs that an empty ring has had everything pulled
  (`EmptyMeansPulled`) and that `Await`'s locals agree with the rings it saw the
  end of (`AwaitIsConsistent`). Arithmetic modulo the capacity is confined to
  `PacketRing_proofs`, whose lemmas say what a store and a vacate do to a ring that
  `Holds` its packets. Theorems: `TypeCorrect`, `RingsHoldNewest`, `NoPacketIsLost`,
  `AwaitDrains`, `WakeupsAreNotLost`, and `RingsAreFifos`: each ring implements
  `MediaFifo`, step by step. `SleepersAreServed` is the safety half of
  `PipelineTerminates`: a `Push` asleep on a full ring has an `Await` that still has
  that ring on its round. Its one exception, `Await` ended by an error, is finding 1.
- `StreamCore_proofs`: `LifecycleInv` (with `FreshIsQuiet`, `FirstConnectIsAlone`,
  `PartsInUse`, `TearDownSteps`: what is known at each place of `Start`, `Stop` and
  `Release`). `LifecycleIsSafe` holds all safety
  properties of the run, `TearDownIsSafe` names the three about teardown, and
  `LifecycleIsTyped`, `WorkersHaveTheirParts` and `ConnectsAreAlone` each of its
  properties alone. The proofs add the reasons to an exhaustive run.
  `CallsAreFinite` is the safety half of `CallsReturn`: `CallWork` ranks the places of a
  call and `WorkerWork` those of a worker that was told to stop; every step lowers
  its own rank, and nobody withdraws the stop while a call joins the worker.
  `ArmedReconnectIsKept` is that of `ArmedIsAttempted`: only a successful `Connect` of
  the worker or a stop disarms.
- `StreamSend_proofs`: `SendInv` is the type, the bounds of the rate and of the rate
  an `Update` has read, and that what it is about to overwrite is that rate or the
  cap a `Reset` has stored meanwhile. Assumption: a floor of at least 100
  kbps, the smallest reduction of a high loss (`FloorAssumption`). Theorems
  `SendingIsTyped`, `BitrateBounds`, `LossLowersTheRate`, and `UpdatesCount`, the safety
  half of `SettlesAtTheBound`: no `Update` is in vain, each takes or adds its 100 or 50
  kbps, reaches the bound, or is one more of the five good intervals. It needs that
  the count an `Update` has read is the one stored or 0 (`CountRead`).
- `ReconnectHandler_proofs`: `BackoffIsTyped` has the bound that keeps the arithmetic
  honest: the seconds counted stay below the cap, so their milliseconds never wrap.
  `RetriesKeepSchedule` rests on `OnSchedule`: the last retry fired at its tick, and the
  clock is that tick and the seconds counted since. Induction over the recursive
  functions `Pow2` and `Schedule` is replaced by the least element of a set of naturals
  (`LeastElement`, from the well-foundedness of `<`): what fails at some index fails
  at a first one, and the definition leads from the index before it to a
  contradiction. The same argument shows that the two functions exist
  (`RecursionExists`) and so satisfy their recursion. Hypotheses of
  `RetriesKeepSchedule` and `IntervalsDouble`: `MaxAttempts + 3 < Bits64`, `MaxAttempts <=
  ShiftCap` and `Bits32 + 2 <= Bits64`; the 32 and 64 bits and the shift cap of 62 of
  `reconnect_handler.cc` meet them up to 60 retries. `IntervalsDouble` also needs a cap
  of a second or more. `ScheduleCollapses` is the other side, and makes finding 4 a
  theorem: once the shift reaches `Bits64 - 3` the interval is 0, for every cap.
- `WebrtcSession_proofs`: `SessionInv`, for any number of sessions. Its
  strengthening says for each place of the control thread which session is live and
  has its `PeerConnection` (`SessionFollowsCall`), for whom the worker may be busy
  (`WorkerFollowsCall`), and what the server can hold of the newest session
  (`ResourceFollowsServer`). Theorems `SessionsStayApart`, `SignalsAreOwn`,
  `WorkersAreJoined`, `LastSessionsAreLetGo`, `GateIsSafe`, `SessionsAreTyped`, and
  `StreamingIsNotMissed`, which adds that the transport of a session does nothing before
  its `PeerConnection` is made (`UnmadeIsQuiet`). `LastSessionsAreLetGo` claims a DELETE
  for the last session that was answered with a Location, not that the server obeys
  it. `CallsAreFinite` is the safety half of `CallsReturn`: the rank of a call, with the teardown counted towards the call it is part of, and that of the
  WHIP worker fall with every step, and while a call waits for the worker no session
  is live, so no late callback can start another one.
- `CodecFactory_proofs`: `Invariance`. `EncoderContract` speaks of the sink only; what
  makes it inductive is where the frames are: output and input queue of the codec
  hold, between their marks, the frames after the last that left it, in order
  (`Pipeline`, with `Holds` and its five lemmas about appending to and taking from
  such a queue). `Counters` says that a frame that left without a packet is excused,
  and `Stages` why an `Init` or a reset may drop what a codec still has: an encoder
  in `kFlushed` has let go of its frames or reported them. Theorems
  `EncodersAreTyped`, `EncodersHaveCodecs`, `FFmpegFlushesDrain`,
  `EncodersKeepContract`: both backends implement `EncoderContract`, for any number
  of frames and buffers, where the frames a `kOk` Flush of Android leaves in the codec
  count as excused (finding 12); `FFmpegKeepsContract`: an FFmpeg encoder implements it
  to the letter, with nothing excused but by an error. `NeverLocksUp` counts the buffers of the two queues: between
  calls a codec fed with CPU frames has room for one frame more than it holds, and
  for the codec-config buffer while it owes that (`Room`); `Marks` says what else may be
  in the queues, and that the codec-config buffer is there once. Hypothesis:
  `OutputSlots >= 2`. With one output buffer the codec-config buffer fills it without
  an `Encode`, and the property is false. `CallsAreFinite` is the safety half of
  `CallsReturn`, for every call that has a codec; the `Flush` without one ends the process
  (finding 6). `CallWork` counts an input buffer twice, because it is turned over and
  then drained, an output buffer once, and the codec-config, the flag, the deadline and
  the codec's failure while they may still come; hardware, drain and failure all
  lower it, so hardware that runs on cannot keep a drain loop going. `FlagsReachOnlyFlush`:
  the model's drain of an `Encode` or `Poll` has no step for an end-of-stream flag, and
  needs none, in either input mode (`Marks` for CPU frames, `SurfaceFlagless`).
- `EncodeFile_proofs`: `Invariance`, in five parts. `CoreInv` is about the threads and
  the rings, without the sinks: a frame the main thread is done with has left its codec
  (`Counts`, `Stages`), and `Await` ends on two closed and empty rings (`AwaitStages`).
  `FilesInv` says of each sink, as long as nothing failed, that it has packets
  1 to `Given[m]` of each media: `FfHolds` in file and fragment or held back before
  the container is open; `McHolds` in the temporary file, with the writer thread or
  held back before the start, by `Interleaves` (a sequence with the packets of two
  media, each in order); the elementary stream in `raw`. `Finish` then makes files
  of it (`FinishWhole`). Theorems `FilesAreTyped`, `BuffersAreLive`, `FilesAreWhole`, and
  `RingsAreQueues`: the rings this module abstracts implement `MediaFifo`, the
  specification the detailed rings of `PacketQueue` are proved to implement, so the
  two modules speak of one queue. The safety half of `ProgramEnds` is in two
  theorems. `WaitsAreForOthers`: unless the sink has failed, an encoder blocked on a
  full ring has an `Await` that still comes by, and at the join both rings are closed
  (`Closings`). `WorkIsFinite`: `WorkLeft`, a sum over frames, packets and the places of
  the two threads, is a natural number that every step lowers, but for polls of an
  empty ring and the muxer's own writer.

Only model-checked:

- that the things above do happen in the end (`PipelineTerminates`,
  `ArmedIsAttempted`, `CallsReturn` of three modules, `AlwaysRetriesAgain`,
  `SettlesAtTheBound`, `AudioComesBack`, `ProgramEnds`), since TLAPS does not reason about
  fairness. `AlwaysRetriesAgain` and `AudioComesBack` have no proved half beyond the
  types and the schedule;
- the violations, which are single counterexamples.

## Findings

Shown by a run:

1. `queue_abandoned` - `packet_queue.cc:66`: `MarkEos` notifies `not_empty_` only. A
   `Push` blocked on a full ring whose consumer has given up sleeps for ever. In the
   examples the encoding thread is the one that would mark the end and join, so it
   does not get there; a `MarkEos` from another thread would not wake it.
2. `stream_drop` - `stream_impl.cc:116`: a drop reported between `Connect`'s return
   and the report of `kStreaming` arms nothing and is overwritten.
3. `stream_stop` - `stream_impl.cc:123`: after a late `kIceConnected` or `kConnecting`,
   `Stop` finds an inactive stream and returns `kOk` with the session up.
4. `reconnect_long_outage` - `reconnect_handler.cc:44`: after the 61st retry the
   interval is 0 and every tick retries.
5. `webrtc_late_callback` - `webrtc_backend.cc:194`: a callback past its generation
   check claims the offer of the next session, which then times out.

5 needs a callback of libdatachannel to be under way while its connection is closed.
Nothing in this repository waits for one; whether the library does is not decided
by this code. The same holds for finding 7.

Read off the code, with no run of their own:

6. `mediacodec_video.cc:52`: an `Init` from `kFlushed` that gets no codec leaves
   `kFlushed`, in which `Flush` is legal and uses the null pointer; `ffmpeg_video.cc:57`
   is the same when memory runs out. `encoders` reaches both (`McFlushNoCodec`,
   `FfFlushNoCodec`), and claims that calls return only for the others.
7. `stream_impl.cc:151`: a report already past the session check replaces the
   `kDestroyed` of `Release`. `stream_lifecycle` reaches it, and claims nothing about
   the state after `Release`.
8. `packet_queue.cc:133`: under `kError` a push after end of stream returns
   `kBackendUnavailable`; the comment above it says `kInvalidArgument`.
9. `abr_controller.cc:21`: with a floor below 100 the subtraction wraps to about
   2^32, and the cap is exceeded. The run has a floor of 700 and the proofs assume 100.
10. `webrtc_backend.cc:422`: a reconnect forgets the old WHIP resource without a
    DELETE, so it stays on the server.
11. `ffmpeg_muxer.cc:427`: `Finish` looks at neither `av_write_trailer`'s result nor
    `fmt_->pb`'s error: a byte sink that refuses the last bytes gives `kOk`.
12. `mediacodec_video.cc:233`: `Flush` of CPU frames takes 10 ms without output for the
    end; `AMediaCodec_flush` then drops what is left, and `kOk` is returned.
13. `mediacodec_video.cc:78`: an `Init` that fails after the codec is created leaves
    `kReleased`, not the previous state.
14. `file_consumer.cc:35`: the result of the final `fclose` is not looked at.
15. `stream_impl.cc:266`: every report resets the counters of the status.

Smaller differences met while modelling:

- `stream_impl.cc:37`: after a failed `Init`, a `Stop` or a `Release` another `Init`
  returns `kOk` and does nothing.
- `stream_impl.cc:106`: after a failed first `Connect` the worker is armed before
  `kReconnecting` is reported, so a quick retry's `kStreaming` may be overwritten.
- `webrtc_backend.cc:145`: flags are notified without `mtx_`; a missed wakeup costs the
  wait's deadline.
- `stream_impl.cc:266-276`: a failing retry first reports `kConnecting`, so its
  `kDisconnected` is not turned into `kReconnecting` as the comment of lines 267-270
  says.
- A closed peer connection is reported as `kDestroyed`, which
  `specs/008-stream-interface/data-model.md:40` keeps for `Release`.
- `Start` reports `kStreaming` when `Connect` returns, before any frame;
  `stream_status.h:18-20` waits for the first frame.
- `AbrController::Reset` goes to the cap, `data-model.md:160` to the initial rate.
- `whip_session.cc:237-272`: a 201 with the wrong Content-Type, an empty or non-SDP body
  or no Location is rejected, and a reply that comes after the client's timeout is
  lost; the server may then keep a session that nothing can delete ("session cannot be
  torn down later"). `Delete` (`:373`) is best effort, and forgets the resource when it
  fails.
- `mediacodec_video.cc:127`: a frame too large for its input buffer is queued empty and
  returns before the drain. Enough of them fill every buffer of both queues, and no
  later `Encode` gets an input buffer; `NeverWedged` is about frames that fit.
- `webrtc_backend.cc:541`: the late store of `first_frame_sent_` of an old session
  can make a new one report `kStreaming` before it has sent anything.

Where a property stops: `FileIsWhole` claims nothing once bytes were lost or a call
failed, so it says nothing about what a replay or a trailer that fails half-way
leaves behind; findings 11 and 14 were read off the code. `LossNeverRaises` and
`RateWithinBounds` are run with a floor at which no subtraction comes near a wrap
(finding 9).

## What is not modelled

- `UpdateConfig`: what it writes (`config_`) no property tells apart, and the race on it
  is undefined behaviour of strings. Counters and `last_error` of the status:
  nothing in the program reads them.
- The FFmpeg muxer with the moov at the end, either muxer without audio, their
  `Release` and destructors with an open container: no program reaches them.
- Annex-B splitting: scans of bytes without state. What its callers do when it finds
  no parameter sets is modelled (`McPushFails`).
- The registries, filled before main, and the configuration parser: look-ups and
  straight-line reading without an order to get wrong.
- `TeeByteSink` and `FileConsumer`'s audio file: used by no program.
- Pixel, sample, EGL and test-pattern utilities, RTP timestamps, sender reports and
  statistics: data, not control.
- The mock backend: a test double. The examples' set-up and option parsing.
- Calls made from inside a status callback: the contract restricts all calls to one
  thread. A `Release` from there would destroy the handler that is executing
  (`stream_impl.cc:298`).
- Data races on words (the configuration, the handler's pointer) are listed as
  hazards with their lines; the one on the bitrate is in `StreamSend`.

## Plan

All components of the plan are modelled, and every safety invariant of a run is a
theorem. What is left, in this order:

1. The safety halves of `AudioComesBack` and `AlwaysRetriesAgain`.
2. Annex-B splitting as functions, checked against a definition on short inputs.
