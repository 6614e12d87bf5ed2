------------------------ MODULE WebrtcSession_proofs ------------------------
(***************************************************************************)
(* Proofs about WebrtcSession, for any number of calls of Connect.  The    *)
(* inductive invariant is SessionInv; it does not look at the flags, so    *)
(* the callbacks and SendVideo matter to it only where they start the      *)
(* worker (CallbackIsQuietOrStarts).                                       *)
(***************************************************************************)
EXTENDS WebrtcSession, TLAPS

(* The variables the invariants other than TypeOK look at. *)
ruled == <<connects, call, then, live, pc, worker, answer, sendEnabled,
           resource, server>>

Rules == /\ SignalIsOwn /\ WorkerIsJoined /\ LastSessionIsLetGo
         /\ GateNeedsSession
         /\ SessionFollowsCall /\ WorkerFollowsCall /\ ResourceFollowsServer

(* The flags record, field by field. *)
FlagRecord == [offerReady : BOOLEAN, gatheringComplete : BOOLEAN,
               connected : BOOLEAN, trackOpen : BOOLEAN, terminal : BOOLEAN,
               firstFrame : BOOLEAN, streaming : BOOLEAN]

FlagTypes == flags \in FlagRecord

StoreTypes == store \in DOMAIN NextStore

(* The two ways to write the type of the flags agree. *)
LEMMA FlagsAreTyped == [DOMAIN ClearFlags -> BOOLEAN] = FlagRecord
  BY DEF ClearFlags, FlagRecord

(* A flag that is reset leaves a record of Booleans, whichever it is. *)
LEMMA ResetKeepsFlagTypes ==
    ASSUME FlagTypes, ResetsFlag
    PROVE  FlagTypes'
  <1>1. flags \in [DOMAIN ClearFlags -> BOOLEAN]
    BY FlagsAreTyped DEF FlagTypes
  <1>2. [flags EXCEPT ![store] = FALSE] \in [DOMAIN ClearFlags -> BOOLEAN]
    BY <1>1
  <1> QED
    BY <1>2, FlagsAreTyped, Zenon DEF ResetsFlag, FlagTypes

(* Every step leaves the flags a record of Booleans. *)
LEMMA FlagTypesStep ==
    ASSUME FlagTypes, [Next]_vars
    PROVE  FlagTypes'
  <1> USE DEF FlagRecord
  <1>2. CASE CallStep
    <2>1. CASE ResetsFlag
      BY <2>1, ResetKeepsFlagTypes
    <2>2. CASE ResetConnectState
      BY <2>2 DEF ResetConnectState, FlagTypes
    <2> QED
      BY <1>2, <2>1, <2>2 DEF CallStep, Invalidate, Close, JoinWhipWorker,
         OpenPeerConnection, Answered, Connected, WaitFails, WaitTimesOut,
         Fail, Delete, Forgets, Disconnected, FlagTypes
  <1>3. ASSUME NEW s \in Sessions, Callback(s)
        PROVE  FlagTypes'
    BY <1>3 DEF Callback, IsCurrentSession, OnStateChange, OnLocalDescription,
       OnGatheringStateChange, ClaimOfferSend, SendOfferToWhip, OnTrackOpen,
       OnTrackClosed, TryMarkStreaming, FlagTypes
  <1>4. CASE WorkerStep
    BY <1>4 DEF WorkerStep, WhipCreateWorker, PostAnswered, PostFails,
       WorkerTests, CurrentPeerConnection, AppliesAnswer, SignalsAnswer,
       FailConnect, WorkerGoes, FlagTypes
  <1>5. CASE SenderStep
    BY <1>5 DEF SenderStep, SendVideo, TakesTrack, SendRefused, FrameSent,
       FrameMarks, TryMarkStreaming, FlagTypes
  <1>6. CASE Connect \/ Disconnect \/ UNCHANGED vars
    BY <1>6 DEF Connect, Disconnect, vars, FlagTypes
  <1> QED
    BY <1>2, <1>3, <1>4, <1>5, <1>6 DEF Next

(* Only the reset moves on to the next flag. *)
LEMMA StoreTypeStep ==
    ASSUME StoreTypes, [Next]_vars
    PROVE  StoreTypes'
  <1>1. NextStore[store] \in DOMAIN NextStore
    BY DEF StoreTypes, NextStore
  <1>2. store' \in {store, NextStore[store]}
    BY DEF Next, CallStep, Invalidate, Close, JoinWhipWorker, ResetsFlag,
       ResetConnectState, OpenPeerConnection, Answered, Connected, WaitFails,
       WaitTimesOut, Fail, Delete, Forgets, Disconnected, Connect, Disconnect,
       Callback, IsCurrentSession, OnStateChange, OnLocalDescription,
       OnGatheringStateChange, ClaimOfferSend, SendOfferToWhip, OnTrackOpen,
       OnTrackClosed, ActsOn, WorkerStep, WhipCreateWorker, PostAnswered,
       PostFails, WorkerTests, CurrentPeerConnection, AppliesAnswer,
       SignalsAnswer, FailConnect, WorkerGoes, SenderStep, SendVideo,
       TakesTrack, SendRefused, FrameSent, FrameMarks, Sends, control, vars
  <1> QED
    BY <1>1, <1>2 DEF StoreTypes

(* The send gate stays a Boolean. *)
LEMMA GateTypeStep ==
    ASSUME sendEnabled \in BOOLEAN, [Next]_vars
    PROVE  sendEnabled' \in BOOLEAN
  BY DEF Next, CallStep, Invalidate, Close, JoinWhipWorker, ResetsFlag,
     ResetConnectState, OpenPeerConnection, Answered, Connected, WaitFails,
     WaitTimesOut, Fail, Delete, Forgets, Disconnected, Connect, Disconnect, Callback,
     IsCurrentSession, OnStateChange, OnLocalDescription,
     OnGatheringStateChange, ClaimOfferSend, SendOfferToWhip, OnTrackOpen,
     OnTrackClosed, ActsOn, WorkerStep, WhipCreateWorker, PostAnswered,
     PostFails, WorkerTests, CurrentPeerConnection, AppliesAnswer,
     SignalsAnswer, FailConnect, WorkerGoes, SenderStep, SendVideo, TakesTrack,
     SendRefused, FrameSent, FrameMarks, Sends, vars

(* TypeOK without the flags and the reset's place in them. *)
PlainTypes ==
    /\ connects \in 0..MaxConnects
    /\ call \in {"idle", "tearing", "closing", "joining", "clearing",
                 "opening", "awaitAnswer", "awaitConnected", "deleting",
                 "disconnecting"}
    /\ then \in {"none", "connect", "fail", "disconnect"}
    /\ {live, pc, resource} \subseteq {NoSession} \cup Sessions
    /\ peer \in [Sessions -> {"none", "new", "gathered", "answered", "up",
                              "open", "down", "ended"}]
    /\ callback \in [Sessions -> Events \cup {"none", "claimed", "marking"}]
    /\ worker \in [pc : {"none", "starting", "posting", "ready", "failed",
                         "holding", "applying", "signalling", "failing",
                         "done"},
                   session : {NoSession} \cup Sessions,
                   held : {NoSession} \cup Sessions]
    /\ worker.pc = "applying" => worker.held \in Sessions
    /\ sender \in {"idle", "gated", "sending", "marking"}
    /\ answer \in [kind : {"none", "ok", "failed"},
                   from : {NoSession} \cup Sessions]
    /\ server \in [Sessions -> {"none", "kept", "unlocated", "deleted",
                                "undeleted"}]

(* TypeOK is its parts. *)
LEMMA TypesSplit ==
    TypeOK <=> PlainTypes /\ FlagTypes /\ StoreTypes /\ sendEnabled \in BOOLEAN
  BY FlagsAreTyped, Zenon DEF TypeOK, PlainTypes, FlagTypes, StoreTypes

(* A callback changes nothing the rules look at, unless it starts the      *)
(* worker of the live session; SendVideo never does.                       *)
LEMMA CallbackIsQuietOrStarts ==
    ASSUME NEW s \in Sessions, Callback(s)
    PROVE  \/ UNCHANGED ruled
           \/ /\ live = s /\ worker.pc = "none"
              /\ StartWorker(s)
              /\ UNCHANGED <<connects, call, then, live, pc, answer,
                             sendEnabled, resource, server>>
  BY DEF Callback, IsCurrentSession, OnStateChange, OnLocalDescription,
     OnGatheringStateChange, ClaimOfferSend, SendOfferToWhip, OnTrackOpen,
     OnTrackClosed, ActsOn, ruled, control, session, whip

(* The type of the worker. *)
Workers ==
    [pc : {"none", "starting", "posting", "ready", "failed", "holding",
           "applying", "signalling", "failing", "done"},
     session : {NoSession} \cup Sessions, held : {NoSession} \cup Sessions]

(* A callback moves on and leaves the types alone.                         *)
LEMMA ActsOnTypes ==
    ASSUME PlainTypes, NEW s \in Sessions,
           NEW next \in {"none", "claimed", "marking"}, ActsOn(s, next)
    PROVE  /\ worker' = worker => PlainTypes'
           /\ worker' \in Workers /\ worker'.pc # "applying" => PlainTypes'
  BY DEF ActsOn, PlainTypes, control, session, whip, Workers

(* A step of the worker that keeps the other threads' variables.           *)
LEMMA WorkerTypes ==
    ASSUME PlainTypes, UNCHANGED <<control, live, pc, callback, sender>>,
           worker' \in Workers, worker'.pc = "applying" => worker'.held \in Sessions,
           peer' = peer, answer' = answer,
           resource' \in {NoSession} \cup Sessions,
           server' \in [Sessions -> {"none", "kept", "unlocated", "deleted",
                                     "undeleted"}]
    PROVE  PlainTypes'
  BY DEF PlainTypes, control, Workers

(* Every step keeps the types.                                             *)
LEMMA PlainTypesStep ==
    ASSUME PlainTypes, Rules, [Next]_vars
    PROVE  PlainTypes'
  <1> USE DEF PlainTypes, control, session, whip, NoSession, Sessions
  <1>1. MaxConnects \in Nat \ {0}
    BY SessionAssumption
  <1>2. CASE CallStep
    <2>1. CASE Invalidate
      BY <1>1, <2>1 DEF Invalidate
    <2>2. CASE Close
      BY <1>1, <2>2 DEF Close
    <2>3. CASE JoinWhipWorker
      BY <1>1, <2>3 DEF JoinWhipWorker, AfterTeardown, NoWorker
    <2>4. CASE ResetConnectState
      BY <1>1, <2>4 DEF ResetConnectState, Unsignalled
    <2>5. CASE OpenPeerConnection
      BY <1>1, <2>5 DEF OpenPeerConnection, Rules, SessionFollowsCall
    <2>6. CASE Answered
      BY <1>1, <2>6 DEF Answered
    <2>7. CASE Connected
      BY <1>1, <2>7 DEF Connected
    <2>8. CASE WaitFails
      BY <1>1, <2>8 DEF WaitFails, Fail
    <2>9. CASE WaitTimesOut
      BY <1>1, <2>9 DEF WaitTimesOut, Fail
    <2>10. CASE Delete
      BY <1>1, <2>10 DEF Delete, Forgets, Deleted
    <2>11. CASE Disconnected
      BY <1>1, <2>11 DEF Disconnected
    <2>12. CASE ResetsFlag
      BY <1>1, <2>12 DEF ResetsFlag
    <2> QED
      BY <1>2, <2>1, <2>2, <2>3, <2>4, <2>5, <2>6, <2>7, <2>8, <2>9, <2>10,
         <2>11, <2>12
         DEF CallStep
  <1>3. ASSUME NEW s \in Sessions, Callback(s)
        PROVE  PlainTypes'
    <2>1. ASSUME NEW e \in Events, IsCurrentSession(s, e)
          PROVE  PlainTypes'
      BY <1>1, <2>1 DEF IsCurrentSession, Transport
    <2>2. CASE OnStateChange(s)
      BY <2>2, ActsOnTypes DEF OnStateChange
    <2>3. CASE OnLocalDescription(s)
      <3>1. /\ ActsOn(s, "none") \/ ActsOn(s, "claimed")
            /\ worker' = worker
        BY <2>3 DEF OnLocalDescription, ClaimOfferSend
      <3> QED
        BY <3>1, ActsOnTypes
    <2>4. CASE OnGatheringStateChange(s)
      <3>1. /\ ActsOn(s, "none") \/ ActsOn(s, "claimed")
            /\ worker' = worker
        BY <2>4 DEF OnGatheringStateChange, ClaimOfferSend
      <3> QED
        BY <3>1, ActsOnTypes
    <2>5. CASE SendOfferToWhip(s)
      <3>1. /\ ActsOn(s, "none")
            /\ \/ worker' = worker
               \/ worker' \in Workers /\ worker'.pc # "applying"
        BY <2>5 DEF SendOfferToWhip, StartWorker, NoWorker, Workers
      <3> QED
        BY <3>1, ActsOnTypes
    <2>6. CASE OnTrackOpen(s)
      BY <2>6, ActsOnTypes DEF OnTrackOpen
    <2>7. CASE OnTrackClosed(s)
      BY <2>7, ActsOnTypes DEF OnTrackClosed
    <2> QED
      BY <1>3, <2>1, <2>2, <2>3, <2>4, <2>5, <2>6, <2>7 DEF Callback
  <1>4. CASE WorkerStep
    <2>1. CASE WhipCreateWorker
      <3>1. worker' \in Workers /\ worker'.pc # "applying"
        BY <2>1 DEF WhipCreateWorker, WorkerGoes, Workers
      <3> QED
        BY <2>1, <3>1, WorkerTypes DEF WhipCreateWorker, WorkerGoes
    <2>2. CASE PostAnswered
      <3>1. worker.session \in Sessions
        BY <1>1, <2>2 DEF PostAnswered, Rules, WorkerFollowsCall, Busy
      <3>2. worker' \in Workers /\ worker'.pc = "ready"
        BY <2>2 DEF PostAnswered, WorkerGoes, Workers
      <3> QED
        BY <2>2, <3>1, <3>2, WorkerTypes DEF PostAnswered, WorkerGoes
    <2>3. CASE PostFails
      BY <1>1, <2>3 DEF PostFails, WorkerGoes
    <2>4. CASE WorkerTests
      <3>1. \E next \in {"done", "holding", "failing"} :
                worker' = [worker EXCEPT !.pc = next]
        BY <2>4 DEF WorkerTests, WorkerGoes
      <3>2. worker' \in Workers /\ worker'.pc # "applying"
        BY <3>1 DEF Workers
      <3> QED
        BY <2>4, <3>2, WorkerTypes DEF WorkerTests, WorkerGoes
    <2>5. CASE CurrentPeerConnection
      <3>1. /\ pc \in {0} \cup Sessions
            /\ \E next \in {"done", "applying"} :
                   /\ worker' = [pc |-> next, session |-> worker.session,
                                 held |-> pc]
                   /\ next = "applying" => pc \in Sessions
        BY <2>5 DEF CurrentPeerConnection
      <3>2. /\ worker' \in Workers
            /\ worker'.pc = "applying" => worker'.held \in Sessions
        BY <3>1 DEF Workers
      <3> QED
        BY <2>5, <3>2, WorkerTypes DEF CurrentPeerConnection
    <2>6. CASE AppliesAnswer
      <3>1. \E next \in {"signalling", "failing"} :
                worker' = [worker EXCEPT !.pc = next]
        BY <2>6 DEF AppliesAnswer, WorkerGoes
      <3>2. worker' \in Workers /\ worker'.pc # "applying"
        BY <3>1 DEF Workers
      <3>3. peer' \in [Sessions -> {"none", "new", "gathered", "answered", "up",
                                   "open", "down", "ended"}]
        BY <2>6 DEF AppliesAnswer
      <3> QED
        BY <2>6, <3>2, <3>3 DEF AppliesAnswer, WorkerGoes, Workers
    <2>7. CASE SignalsAnswer
      BY <1>1, <2>7 DEF SignalsAnswer, WorkerGoes
    <2>8. CASE FailConnect
      BY <1>1, <2>8 DEF FailConnect, WorkerGoes
    <2> QED
      BY <1>4, <2>1, <2>2, <2>3, <2>4, <2>5, <2>6, <2>7, <2>8 DEF WorkerStep
  <1>5. CASE SenderStep
    BY <1>5 DEF SenderStep, SendVideo, TakesTrack, SendRefused, FrameSent,
       FrameMarks, Sends
  <1>6. CASE Connect
    BY <1>1, <1>6 DEF Connect
  <1>7. CASE Disconnect
    BY <1>1, <1>7 DEF Disconnect
  <1>8. CASE UNCHANGED vars
    BY <1>8 DEF vars
  <1> QED
    BY <1>2, <1>3, <1>4, <1>5, <1>6, <1>7, <1>8 DEF Next

(* What the rules need of the types. *)
RuledTypes ==
    /\ connects \in 0..MaxConnects
    /\ {live, pc, resource} \subseteq Nat
    /\ server = [s \in Sessions |-> server[s]]
    /\ worker = [pc |-> worker.pc, session |-> worker.session,
                 held |-> worker.held]
    /\ answer = [kind |-> answer.kind, from |-> answer.from]

(* The types give it. *)
LEMMA RuledTypesFollow == PlainTypes => RuledTypes
  <1> SUFFICES ASSUME PlainTypes PROVE RuledTypes
    OBVIOUS
  <1>1. server = [s \in Sessions |-> server[s]]
    BY DEF PlainTypes
  <1>2. /\ worker = [pc |-> worker.pc, session |-> worker.session,
                     held |-> worker.held]
        /\ answer = [kind |-> answer.kind, from |-> answer.from]
    BY DEF PlainTypes
  <1>3. connects \in 0..MaxConnects /\ {live, pc, resource} \subseteq Nat
    BY SessionAssumption DEF PlainTypes, Sessions, NoSession
  <1> QED
    BY <1>1, <1>2, <1>3 DEF RuledTypes

(* The rules are kept by every step: one case for each action that changes *)
(* what they look at.                                                      *)
LEMMA RulesStep ==
    ASSUME RuledTypes, Rules, [Next]_vars
    PROVE  Rules'
  <1> USE DEF Rules, SignalIsOwn, WorkerIsJoined, LastSessionIsLetGo,
              GateNeedsSession, SessionFollowsCall, WorkerFollowsCall,
              ResourceFollowsServer, Keeps, Awaiting, Tearing, Busy, RuledTypes,
              control, session, whip, NoSession, NoWorker, Unsignalled
  <1>1. CASE UNCHANGED ruled
    BY <1>1 DEF ruled
  <1>2. CASE CallStep
    <2>1. CASE Invalidate
      BY <2>1 DEF Invalidate
    <2>2. CASE Close
      BY <2>2 DEF Close
    <2>3. CASE JoinWhipWorker
      BY <2>3 DEF JoinWhipWorker, AfterTeardown
    <2>4. CASE ResetConnectState
      BY <2>4 DEF ResetConnectState
    <2>5. CASE OpenPeerConnection
      BY <2>5 DEF OpenPeerConnection
    <2>6. CASE Answered
      BY <2>6 DEF Answered
    <2>7. CASE Connected
      BY <2>7 DEF Connected
    <2>8. CASE WaitFails
      BY <2>8 DEF WaitFails, Fail
    <2>9. CASE WaitTimesOut
      BY <2>9 DEF WaitTimesOut, Fail
    <2>10. CASE Delete
      <3>1. /\ call = "deleting" /\ call' = "tearing" /\ then' = "disconnect"
            /\ resource' = NoSession
            /\ UNCHANGED <<connects, live, pc, worker, answer, sendEnabled>>
        BY <2>10 DEF Delete, Forgets
      <3>2. ~Keeps(connects)'
        <4>1. connects' = connects
          BY <3>1
        <4>2. CASE resource = NoSession
          BY <2>10, <4>1, <4>2 DEF Delete, Deleted
        <4>3. CASE resource # NoSession
          <5>1. PICK end \in {"deleted", "undeleted"} :
                    server' = [server EXCEPT ![resource] = end]
            BY <2>10, <4>3 DEF Delete, Deleted
          <5>2. connects # NoSession => connects \in Sessions
            BY SessionAssumption DEF Sessions
          <5>3. resource = connects => server'[connects] = end \/ connects = NoSession
            BY <5>1, <5>2
          <5>4. resource # connects => server'[connects] = server[connects]
            BY <5>1, <5>2
          <5> QED
            BY <4>1, <5>3, <5>4
        <4> QED
          BY <4>2, <4>3
      <3>3. \A s \in Sessions : s > connects => server'[s] = "none"
        <4>1. \A s \in Sessions : s > connects => s # resource
          BY SessionAssumption DEF Sessions
        <4> QED
          BY <2>10, <4>1 DEF Delete, Deleted
      <3> QED
        BY <3>1, <3>2, <3>3
    <2>11. CASE Disconnected
      BY <2>11 DEF Disconnected
    <2>12. CASE ResetsFlag
      BY <2>12 DEF ResetsFlag
    <2> QED
      BY <1>2, <2>1, <2>2, <2>3, <2>4, <2>5, <2>6, <2>7, <2>8, <2>9, <2>10,
         <2>11, <2>12
         DEF CallStep
  <1>3. ASSUME NEW s \in Sessions, Callback(s)
        PROVE  Rules'
    <2>1. CASE /\ live = s /\ worker.pc = "none"
               /\ StartWorker(s)
               /\ UNCHANGED <<connects, call, then, live, pc, answer,
                              sendEnabled, resource, server>>
      BY <2>1, SessionAssumption DEF StartWorker, Sessions
    <2> QED
      BY <1>1, <1>3, <2>1, CallbackIsQuietOrStarts
  <1>4. CASE WorkerStep
    <2>1. CASE WhipCreateWorker
      BY <2>1 DEF WhipCreateWorker, WorkerGoes, WorkerIsCurrent
    <2>2. CASE PostAnswered
      BY <2>2 DEF PostAnswered, WorkerGoes
    <2>3. CASE PostFails
      BY <2>3 DEF PostFails, WorkerGoes
    <2>4. CASE WorkerTests
      BY <2>4 DEF WorkerTests, WorkerGoes, WorkerIsCurrent
    <2>5. CASE CurrentPeerConnection
      BY <2>5 DEF CurrentPeerConnection
    <2>6. CASE AppliesAnswer
      BY <2>6 DEF AppliesAnswer, WorkerGoes
    <2>7. CASE SignalsAnswer
      BY <2>7 DEF SignalsAnswer, WorkerGoes
    <2>8. CASE FailConnect
      BY <2>8 DEF FailConnect, WorkerGoes
    <2> QED
      BY <1>4, <2>1, <2>2, <2>3, <2>4, <2>5, <2>6, <2>7, <2>8
         DEF WorkerStep
  <1>5. CASE SenderStep
    BY <1>1, <1>5 DEF SenderStep, SendVideo, TakesTrack, SendRefused, FrameSent,
       FrameMarks, Sends, ruled
  <1>6. CASE Connect
    <2>1. connects + 1 \in Sessions /\ connects + 1 > connects
      BY <1>6, SessionAssumption DEF Connect, Sessions
    <2>2. server[connects + 1] = "none"
      BY <2>1
    <2>3. \A s \in Sessions : s > connects + 1 => s > connects
      BY SessionAssumption DEF Sessions
    <2> QED
      BY <1>6, <2>2, <2>3 DEF Connect
  <1>7. CASE Disconnect
    BY <1>7 DEF Disconnect
  <1>8. CASE UNCHANGED vars
    BY <1>1, <1>8 DEF vars, ruled
  <1> QED
    BY <1>2, <1>3, <1>4, <1>5, <1>6, <1>7, <1>8 DEF Next

(* No thread is about to look at the two flags. *)
NobodyMarks ==
    sender # "marking" /\ \A s \in Sessions : callback[s] # "marking"

(* When a step leaves nobody about to look, either it was the look, or     *)
(* nobody was before it either and it stored neither flag.                 *)
LEMMA MarksStep ==
    ASSUME PlainTypes, FlagTypes, [Next]_vars, NobodyMarks', call # "clearing"
    PROVE  \/ flags' = TryMarkStreaming(flags)
           \/ ~flags'.trackOpen
           \/ /\ NobodyMarks
              /\ flags'.streaming = flags.streaming
              /\ flags'.trackOpen = flags.trackOpen
              /\ flags'.firstFrame = flags.firstFrame
  <1> USE DEF NobodyMarks
  <1>1. CASE CallStep
    <2>1. UNCHANGED <<callback, sender>>
      BY <1>1 DEF CallStep, Invalidate, Close, JoinWhipWorker, ResetsFlag,
         ResetConnectState, OpenPeerConnection, Answered, Connected, WaitFails,
         WaitTimesOut, Fail, Delete, Forgets, Disconnected
    <2>2. flags' = flags \/ ~flags'.trackOpen
      <3>1. ~ResetsFlag /\ ~ResetConnectState
        BY DEF ResetsFlag, ResetConnectState
      <3>2. CASE Disconnected
        BY <3>2 DEF Disconnected, FlagTypes, FlagRecord
      <3> QED
        BY <1>1, <3>1, <3>2 DEF CallStep, Invalidate, Close, JoinWhipWorker,
           OpenPeerConnection, Answered, Connected, WaitFails, WaitTimesOut,
           Fail, Delete, Forgets
    <2> QED
      BY <2>1, <2>2
  <1>2. ASSUME NEW s \in Sessions, Callback(s)
        PROVE  \/ flags' = TryMarkStreaming(flags)
               \/ ~flags'.trackOpen
               \/ /\ NobodyMarks
                  /\ flags'.streaming = flags.streaming
                  /\ flags'.trackOpen = flags.trackOpen
                  /\ flags'.firstFrame = flags.firstFrame
    <2> USE DEF PlainTypes, FlagTypes, FlagRecord, ActsOn
    <2>1. CASE \E e \in Events : IsCurrentSession(s, e)
      BY <2>1 DEF IsCurrentSession
    <2>2. CASE OnStateChange(s)
      BY <2>2 DEF OnStateChange
    <2>3. CASE OnLocalDescription(s)
      BY <2>3 DEF OnLocalDescription, ClaimOfferSend
    <2>4. CASE OnGatheringStateChange(s)
      <3>1. NobodyMarks
        BY <2>4 DEF OnGatheringStateChange, ClaimOfferSend
      <3>2. \/ flags' = [[flags EXCEPT !.gatheringComplete = TRUE]
                            EXCEPT !.offerReady = TRUE]
            \/ flags' = [flags EXCEPT !.gatheringComplete = FALSE]
        BY <2>4 DEF OnGatheringStateChange, ClaimOfferSend
      <3>3. /\ flags'.streaming = flags.streaming
            /\ flags'.trackOpen = flags.trackOpen
            /\ flags'.firstFrame = flags.firstFrame
        BY <3>2
      <3> QED
        BY <3>1, <3>3
    <2>5. CASE SendOfferToWhip(s)
      BY <2>5 DEF SendOfferToWhip
    <2>6. CASE OnTrackOpen(s)
      BY <2>6 DEF OnTrackOpen
    <2>7. CASE OnTrackClosed(s)
      BY <2>7 DEF OnTrackClosed
    <2> QED
      BY <1>2, <2>1, <2>2, <2>3, <2>4, <2>5, <2>6, <2>7 DEF Callback
  <1>3. CASE WorkerStep
    BY <1>3 DEF WorkerStep, WhipCreateWorker, PostAnswered, PostFails,
       WorkerTests, CurrentPeerConnection, AppliesAnswer, SignalsAnswer,
       FailConnect, WorkerGoes
  <1>4. CASE SenderStep
    BY <1>4 DEF SenderStep, SendVideo, TakesTrack, SendRefused, FrameSent,
       FrameMarks, Sends
  <1>5. CASE Connect \/ Disconnect \/ UNCHANGED vars
    BY <1>5 DEF Connect, Disconnect, vars
  <1> QED
    BY <1>1, <1>2, <1>3, <1>4, <1>5 DEF Next

(* Where a step of a call goes. *)
LEMMA CallMoves ==
    ASSUME CallStep
    PROVE  \/ /\ then' = then /\ store' = store
              /\ \/ call = "tearing" /\ call' = "closing"
                 \/ call = "closing" /\ call' = "joining"
                 \/ /\ call = "joining"
                    /\ call' = CASE then = "connect"    -> "clearing"
                                 [] then = "disconnect" -> "disconnecting"
                                 [] OTHER               -> "idle"
                 \/ call = "opening" /\ call' = "awaitAnswer"
                 \/ call = "awaitAnswer" /\ call' = "awaitConnected"
                 \/ call = "awaitConnected" /\ call' = "idle"
                 \/ call = "disconnecting" /\ call' = "idle"
           \/ /\ call = "clearing" /\ store' = NextStore[store]
              /\ then' = then
              /\ call' = IF store = "streaming" THEN "opening" ELSE "clearing"
           \/ /\ call' = "tearing" /\ store' = store
              /\ \/ call \in {"awaitAnswer", "awaitConnected"} /\ then' = "fail"
                 \/ call = "deleting" /\ then' = "disconnect"
  BY DEF CallStep, Invalidate, Close, JoinWhipWorker, AfterTeardown, ResetsFlag,
         ResetConnectState, OpenPeerConnection, Answered, Connected, WaitFails,
         WaitTimesOut, Fail, Delete, Forgets, Disconnected

(* Only the control thread moves a call. *)
LEMMA OthersLeaveTheCall ==
    ASSUME [Next]_vars, call # "idle"
    PROVE  CallStep \/ UNCHANGED <<connects, call, then, store>>
  <1>1. ASSUME NEW s \in Sessions, Callback(s)
        PROVE  UNCHANGED <<connects, call, then, store>>
    BY <1>1 DEF Callback, IsCurrentSession, OnStateChange, OnLocalDescription,
       OnGatheringStateChange, ClaimOfferSend, SendOfferToWhip, OnTrackOpen,
       OnTrackClosed, ActsOn, control
  <1>2. CASE WorkerStep
    BY <1>2 DEF WorkerStep, WhipCreateWorker, PostAnswered, PostFails,
       WorkerTests, CurrentPeerConnection, AppliesAnswer, SignalsAnswer,
       FailConnect, WorkerGoes, control
  <1>3. CASE SenderStep
    BY <1>3 DEF SenderStep, SendVideo, TakesTrack, SendRefused, FrameSent,
       FrameMarks, Sends, control
  <1>4. CASE Connect \/ Disconnect \/ UNCHANGED vars
    BY <1>4 DEF Connect, Disconnect, vars
  <1> QED
    BY <1>1, <1>2, <1>3, <1>4 DEF Next

(* Before its PeerConnection is made a session's peer has done nothing. *)
UnmadeIsQuiet ==
    \A s \in Sessions :
        \/ s > connects
        \/ s = connects /\ (call \in {"clearing", "opening"} \/ Tearing({"connect"}))
        => peer[s] = "none"

(* A peer that has done nothing does nothing until it is made. *)
LEMMA PeersWait ==
    ASSUME PlainTypes, [Next]_vars, NEW s \in Sessions, peer[s] = "none"
    PROVE  peer'[s] = "none" \/ (OpenPeerConnection /\ s = connects)
  <1> USE DEF PlainTypes
  <1>1. ASSUME NEW r \in Sessions, Callback(r)
        PROVE  peer'[s] = "none"
    <2>1. ASSUME NEW e \in Events, IsCurrentSession(r, e)
          PROVE  peer'[s] = "none"
      BY <2>1 DEF IsCurrentSession, Transport
    <2> QED
      BY <1>1, <2>1 DEF Callback, OnStateChange, OnLocalDescription,
         OnGatheringStateChange, ClaimOfferSend, SendOfferToWhip, OnTrackOpen,
         OnTrackClosed, ActsOn, session
  <1>2. CASE AppliesAnswer
    BY <1>2 DEF AppliesAnswer, WorkerGoes
  <1>3. CASE WorkerStep /\ ~AppliesAnswer
    BY <1>3 DEF WorkerStep, WhipCreateWorker, PostAnswered, PostFails,
       WorkerTests, CurrentPeerConnection, SignalsAnswer, FailConnect, session
  <1>4. CASE OpenPeerConnection
    BY <1>4 DEF OpenPeerConnection
  <1>5. CASE CallStep /\ ~OpenPeerConnection
    BY <1>5 DEF CallStep, Invalidate, Close, JoinWhipWorker, ResetsFlag,
       ResetConnectState, Answered, Connected, WaitFails, WaitTimesOut, Fail,
       Delete, Forgets, Disconnected, session
  <1>6. CASE SenderStep \/ Connect \/ Disconnect \/ UNCHANGED vars
    BY <1>6 DEF SenderStep, SendVideo, TakesTrack, SendRefused, FrameSent,
       FrameMarks, Sends, Connect, Disconnect, session, vars
  <1> QED
    BY <1>1, <1>2, <1>3, <1>4, <1>5, <1>6 DEF Next

(* A session whose peer is open now and has told so was so before, and its *)
(* Connect is past the reset of the flags.                                 *)
LEMMA OpenIsSettled ==
    ASSUME PlainTypes, UnmadeIsQuiet, [Next]_vars, NEW s \in Sessions,
           s = connects', peer'[s] = "open",
           callback'[s] \notin {"trackOpen", "marking"}
    PROVE  /\ s = connects /\ peer[s] = "open"
           /\ callback[s] # "trackOpen" /\ call # "clearing"
  <1> USE DEF PlainTypes
  <1>1. s \in Nat /\ connects \in Nat
    BY SessionAssumption DEF Sessions
  <1>2. CASE Connect
    <2>1. s > connects /\ peer'[s] = peer[s]
      BY <1>1, <1>2 DEF Connect, session
    <2> QED
      BY <2>1 DEF UnmadeIsQuiet
  <1>3. CASE ~Connect
    <2>1. connects' = connects
      BY <1>3 DEF Next, CallStep, Invalidate, Close, JoinWhipWorker,
         ResetsFlag, ResetConnectState, OpenPeerConnection, Answered,
         Connected, WaitFails, WaitTimesOut, Fail, Delete, Forgets,
         Disconnected, Disconnect, Callback, IsCurrentSession, OnStateChange,
         OnLocalDescription, OnGatheringStateChange, ClaimOfferSend,
         SendOfferToWhip, OnTrackOpen, OnTrackClosed, ActsOn, WorkerStep,
         WhipCreateWorker, PostAnswered, PostFails, WorkerTests,
         CurrentPeerConnection, AppliesAnswer, SignalsAnswer, FailConnect,
         WorkerGoes, SenderStep, SendVideo, TakesTrack, SendRefused,
         FrameSent, FrameMarks, Sends, control, vars
    <2>2. call # "clearing"
      BY <2>1, PeersWait DEF UnmadeIsQuiet, OpenPeerConnection
    <2>3. ASSUME NEW r \in Sessions, Callback(r)
          PROVE  peer[s] = "open" /\ callback[s] # "trackOpen"
      <3>1. ASSUME NEW e \in Events, IsCurrentSession(r, e)
            PROVE  peer[s] = "open" /\ callback[s] # "trackOpen"
        BY <3>1 DEF IsCurrentSession, Transport
      <3> QED
        BY <2>3, <3>1 DEF Callback, OnStateChange, OnLocalDescription,
           OnGatheringStateChange, ClaimOfferSend, SendOfferToWhip,
           OnTrackOpen, OnTrackClosed, ActsOn, session
    <2>4. CASE CallStep
      <3>1. CASE OpenPeerConnection
        BY <2>1, <3>1 DEF OpenPeerConnection
      <3>2. ~OpenPeerConnection => UNCHANGED <<peer, callback>>
        BY <2>4 DEF CallStep, Invalidate, Close, JoinWhipWorker,
           ResetsFlag, ResetConnectState, Answered, Connected, WaitFails,
           WaitTimesOut, Fail, Delete, Forgets, Disconnected, session
      <3> QED
        BY <2>1, <2>2, <3>1, <3>2
    <2>5. CASE WorkerStep
      <3>1. AppliesAnswer => callback' = callback /\ peer[s] = "open"
        BY DEF AppliesAnswer, WorkerGoes
      <3>2. ~AppliesAnswer => UNCHANGED <<peer, callback>>
        BY <2>5 DEF WorkerStep, WhipCreateWorker, PostAnswered,
           PostFails, WorkerTests, CurrentPeerConnection, SignalsAnswer,
           FailConnect, WorkerGoes, session
      <3> QED
        BY <2>1, <2>2, <3>1, <3>2
    <2>6. CASE SenderStep \/ Disconnect \/ UNCHANGED vars
      <3>1. UNCHANGED <<peer, callback>>
        BY <2>6 DEF SenderStep, SendVideo, TakesTrack, SendRefused, FrameSent,
           FrameMarks, Sends, Disconnect, session, vars
      <3> QED
        BY <2>1, <2>2, <3>1
    <2> QED
      BY <1>3, <2>1, <2>2, <2>3, <2>4, <2>5, <2>6 DEF Next
  <1> QED
    BY <1>2, <1>3

(* Every step leaves the sessions to come quiet. *)
LEMMA UnmadeStep ==
    ASSUME PlainTypes, Rules, UnmadeIsQuiet, [Next]_vars
    PROVE  UnmadeIsQuiet'
  <1> SUFFICES ASSUME NEW s \in Sessions,
                      \/ s > connects'
                      \/ /\ s = connects'
                         /\ call' \in {"clearing", "opening"} \/ Tearing({"connect"})'
               PROVE  peer'[s] = "none"
    BY DEF UnmadeIsQuiet
  <1>1. s \in Nat /\ connects \in Nat /\ connects' \in {connects, connects + 1}
    <2>1. s \in Nat /\ connects \in Nat
      BY SessionAssumption DEF PlainTypes, Sessions
    <2>2. connects' \in {connects, connects + 1}
      BY DEF Next, CallStep, Invalidate, Close, JoinWhipWorker,
         ResetsFlag, ResetConnectState, OpenPeerConnection, Answered,
         Connected, WaitFails, WaitTimesOut, Fail, Delete, Forgets, Connect,
         Disconnected, Disconnect, Callback, IsCurrentSession, OnStateChange,
         OnLocalDescription, OnGatheringStateChange, ClaimOfferSend,
         SendOfferToWhip, OnTrackOpen, OnTrackClosed, ActsOn, WorkerStep,
         WhipCreateWorker, PostAnswered, PostFails, WorkerTests,
         CurrentPeerConnection, AppliesAnswer, SignalsAnswer, FailConnect,
         WorkerGoes, SenderStep, SendVideo, TakesTrack, SendRefused,
         FrameSent, FrameMarks, Sends, control, vars
    <2> QED
      BY <2>1, <2>2
  <1>2. CASE call = "idle"
    <2>1. s > connects
      <3>1. \/ connects' = connects /\ call' \in {"idle", "deleting"}
            \/ connects' = connects + 1
        BY <1>2 DEF Next, CallStep, Invalidate, Close, JoinWhipWorker,
           ResetsFlag, ResetConnectState, OpenPeerConnection, Answered,
           Connected, WaitFails, WaitTimesOut, Delete, Forgets, Connect,
           Disconnected, Disconnect, Callback, IsCurrentSession,
           OnStateChange, OnLocalDescription, OnGatheringStateChange,
           ClaimOfferSend, SendOfferToWhip, OnTrackOpen, OnTrackClosed,
           ActsOn, WorkerStep, WhipCreateWorker, PostAnswered, PostFails,
           WorkerTests, CurrentPeerConnection, AppliesAnswer, SignalsAnswer,
           FailConnect, WorkerGoes, SenderStep, SendVideo, TakesTrack,
           SendRefused, FrameSent, FrameMarks, Sends, control, vars
      <3> QED
        BY <1>1, <3>1 DEF Tearing
    <2> QED
      BY <1>2, <2>1, PeersWait DEF UnmadeIsQuiet, OpenPeerConnection
  <1>3. CASE call # "idle"
    <2>1. CallStep \/ UNCHANGED <<call, then, connects>>
      BY <1>3, OthersLeaveTheCall
    <2>2. connects' = connects
      BY <2>1 DEF CallStep, Invalidate, Close, JoinWhipWorker,
         ResetsFlag, ResetConnectState, OpenPeerConnection, Answered,
         Connected, WaitFails, WaitTimesOut, Fail, Delete, Forgets,
         Disconnected
    <2>3. ~OpenPeerConnection \/ s > connects
      BY <2>2 DEF OpenPeerConnection, Tearing
    <2>4. s = connects => call \in {"clearing", "opening"} \/ Tearing({"connect"})
      BY <1>1, <2>1, <2>2, CallMoves DEF Tearing
    <2>5. peer[s] = "none"
      BY <2>2, <2>4 DEF UnmadeIsQuiet
    <2> QED
      BY <1>1, <2>2, <2>3, <2>5, PeersWait
  <1> QED
    BY <1>2, <1>3

(* Nor does any step leave the pair of flags set, with nobody about to     *)
(* look at them and kStreaming not reported.                               *)
LEMMA StreamingStep ==
    ASSUME PlainTypes, FlagTypes, UnmadeIsQuiet, StreamingIsReported,
           [Next]_vars
    PROVE  StreamingIsReported'
  <1> SUFFICES ASSUME NEW s \in Sessions,
                      s = connects', peer'[s] = "open",
                      callback'[s] # "trackOpen",
                      flags'.trackOpen, flags'.firstFrame, NobodyMarks'
               PROVE  flags'.streaming
    BY DEF StreamingIsReported, NobodyMarks
  <1>1. callback'[s] \notin {"trackOpen", "marking"}
    BY DEF NobodyMarks
  <1>2. /\ s = connects /\ peer[s] = "open"
        /\ callback[s] # "trackOpen" /\ call # "clearing"
    BY <1>1, OpenIsSettled
  <1>3. CASE flags' = TryMarkStreaming(flags)
    BY <1>3 DEF TryMarkStreaming, FlagTypes, FlagRecord
  <1>4. CASE /\ NobodyMarks
             /\ flags'.streaming = flags.streaming
             /\ flags'.trackOpen = flags.trackOpen
             /\ flags'.firstFrame = flags.firstFrame
    BY <1>2, <1>4 DEF StreamingIsReported, NobodyMarks
  <1> QED
    BY <1>2, <1>3, <1>4, MarksStep

-----------------------------------------------------------------------------
(* The inductive invariant holds in every state: sessions, the worker that *)
(* posts for them and the server's resources never come apart, however     *)
(* late a callback acts (webrtc_backend.cc and whip_session.cc).           *)
THEOREM SessionsStayApart == Spec => []SessionInv
  <1>1. SessionInv <=> /\ PlainTypes /\ FlagTypes /\ StoreTypes
                       /\ sendEnabled \in BOOLEAN
                       /\ Rules
    BY TypesSplit DEF SessionInv, Rules
  <1>2. Init => SessionInv
    <2> SUFFICES ASSUME Init PROVE SessionInv
      OBVIOUS
    <2>1. PlainTypes
      BY SessionAssumption DEF Init, PlainTypes, Sessions, NoSession, NoWorker,
         Unsignalled
    <2>2. FlagTypes /\ StoreTypes /\ sendEnabled \in BOOLEAN
      BY DEF Init, FlagTypes, FlagRecord, ClearFlags, StoreTypes, NextStore
    <2>3. Rules
      BY DEF Init, Rules, SignalIsOwn, WorkerIsJoined, LastSessionIsLetGo,
         GateNeedsSession, SessionFollowsCall, WorkerFollowsCall,
         ResourceFollowsServer, Keeps, Awaiting, Tearing, Busy, NoSession,
         NoWorker, Unsignalled
    <2> QED
      BY <1>1, <2>1, <2>2, <2>3
  <1>3. SessionInv /\ [Next]_vars => SessionInv'
    <2> SUFFICES ASSUME SessionInv, [Next]_vars PROVE SessionInv'
      OBVIOUS
    <2>1. PlainTypes /\ FlagTypes /\ StoreTypes /\ sendEnabled \in BOOLEAN /\ Rules
      BY <1>1
    <2>2. /\ PlainTypes' /\ FlagTypes' /\ StoreTypes' /\ sendEnabled' \in BOOLEAN
          /\ Rules'
      BY <2>1, RuledTypesFollow, PlainTypesStep, FlagTypesStep, StoreTypeStep,
         GateTypeStep, RulesStep
    <2>3. TypeOK'
      BY <2>2, FlagsAreTyped, Zenon DEF TypeOK, PlainTypes, FlagTypes, StoreTypes
    <2> QED
      BY <2>2, <2>3 DEF SessionInv, Rules
  <1> QED
    BY <1>2, <1>3, PTL DEF Spec

(* What Connect is told while it waits was signalled for its own session.  *)
THEOREM SignalsAreOwn == Spec => []SignalIsOwn
  <1>1. SessionInv => SignalIsOwn
    BY DEF SessionInv
  <1> QED
    BY <1>1, SessionsStayApart, PTL

(* No worker outlives the teardown of its session.                         *)
THEOREM WorkersAreJoined == Spec => []WorkerIsJoined
  <1>1. SessionInv => WorkerIsJoined
    BY DEF SessionInv
  <1> QED
    BY <1>1, SessionsStayApart, PTL

(* After Disconnect the server keeps no session of the last Connect whose  *)
(* Location the client was given and no DELETE was sent for: rejected      *)
(* replies and failed DELETEs apart, nothing is left behind.               *)
THEOREM LastSessionsAreLetGo == Spec => []LastSessionIsLetGo
  <1>1. SessionInv => LastSessionIsLetGo
    BY DEF SessionInv
  <1> QED
    BY <1>1, SessionsStayApart, PTL

(* The send gate is open only for the newest session, once established.    *)
THEOREM GateIsSafe == Spec => []GateNeedsSession
  <1>1. SessionInv => GateNeedsSession
    BY DEF SessionInv
  <1> QED
    BY <1>1, SessionsStayApart, PTL

(* kStreaming is not missed: the newest session's open track and a sent    *)
(* frame, on two threads that may run at once, are reported by one of      *)
(* them, however late the session before still stores its flags            *)
(* (webrtc_backend.cc, TryMarkStreaming).                                  *)
THEOREM StreamingIsNotMissed == Spec => []StreamingIsReported
  <1>1. Init => StreamingIsReported /\ UnmadeIsQuiet
    BY DEF Init, ClearFlags, StreamingIsReported, UnmadeIsQuiet
  <1>2. SessionInv => PlainTypes /\ FlagTypes /\ Rules
    BY TypesSplit DEF SessionInv, Rules
  <1>3. SessionInv /\ StreamingIsReported /\ UnmadeIsQuiet /\ [Next]_vars
            => StreamingIsReported' /\ UnmadeIsQuiet'
    BY <1>2, StreamingStep, UnmadeStep
  <1> QED
    BY <1>1, <1>3, SessionsStayApart, PTL DEF Spec

(* Every variable of the backend keeps its type, for any number of         *)
(* sessions; in particular the worker that applies an answer has the       *)
(* PeerConnection of some session in hand.                                 *)
THEOREM SessionsAreTyped == Spec => []TypeOK
  <1>1. SessionInv => TypeOK
    BY DEF SessionInv
  <1> QED
    BY <1>1, SessionsStayApart, PTL

-----------------------------------------------------------------------------
(* The safety part of CallsReturn: the measures that fairness of the       *)
(* control thread and of the WHIP worker bring down.                       *)

(* A teardown goes on to the rest of the call it is part of. *)
AfterTeardownWork ==
    CASE then = "connect" -> 13 [] then = "disconnect" -> 1 [] OTHER -> 0

(* How many stores of the reset come after this one. *)
StoreWork ==
    CASE store = "offerReady" -> 6
      [] store = "gatheringComplete" -> 5
      [] store = "connected" -> 4
      [] store = "trackOpen" -> 3
      [] store = "terminal" -> 2
      [] store = "firstFrame" -> 1
      [] store = "streaming" -> 0

(* How many steps Connect or Disconnect is from its return, at most. *)
CallWork ==
    CASE call = "idle" -> 0
      [] call = "disconnecting" -> 1
      [] call = "joining" -> AfterTeardownWork + 1
      [] call = "closing" -> AfterTeardownWork + 2
      [] call = "tearing" -> AfterTeardownWork + 3
      [] call = "awaitConnected" -> 4
      [] call \in {"awaitAnswer", "deleting"} -> 5
      [] call = "opening" -> 6
      [] call = "clearing" -> StoreWork + 7

(* How many steps the WHIP worker is from its end, at most. *)
WorkerWork ==
    CASE worker.pc = "starting" -> 6
      [] worker.pc = "posting" -> 5
      [] worker.pc \in {"ready", "failed"} -> 4
      [] worker.pc = "holding" -> 3
      [] worker.pc = "applying" -> 2
      [] worker.pc \in {"signalling", "failing"} -> 1
      [] OTHER -> 0

(* Each step of Connect and Disconnect brings the call nearer to its       *)
(* return, a failed Connect's teardown included, and no other thread takes *)
(* it back; each step of the worker brings that nearer to its end.  While  *)
(* a call waits for the worker, in the join or for io_mtx_, nothing can    *)
(* start another one (webrtc_backend.cc, TeardownConnection; SendOffer-    *)
(* ToWhip tests the generation again under mtx_).                          *)
CallsMakeHeadway ==
    [][ /\ call # "idle" => CallWork' <= CallWork
        /\ CallStep => CallWork' < CallWork
        /\ WorkerStep => WorkerWork' < WorkerWork
        /\ call \in {"deleting", "closing", "joining"}
               => WorkerWork' <= WorkerWork ]_vars

(* A step of a call is one down in CallWork, or more. *)
LEMMA CallStepsDescend ==
    ASSUME CallStep, StoreTypes
    PROVE  CallWork' < CallWork
  <1>1. StoreWork \in 0..6
    BY DEF StoreTypes, NextStore, StoreWork
  <1>2. CASE call = "clearing" /\ call' = "clearing"
    <2>1. store # "streaming" /\ store' = NextStore[store]
      BY <1>2, CallMoves
    <2>2. StoreWork' = StoreWork - 1
      BY <2>1 DEF StoreTypes, NextStore, StoreWork
    <2> QED
      BY <1>1, <1>2, <2>2 DEF CallWork
  <1>3. CASE ~(call = "clearing" /\ call' = "clearing")
    <2>1. call' = "clearing" => store' = store /\ call = "joining" /\ then = "connect"
      BY <1>3, CallMoves
    <2>2. call' = "clearing" => StoreWork' = StoreWork
      BY <2>1 DEF StoreWork
    <2> QED
      BY <1>1, <1>3, <2>1, <2>2, CallMoves DEF CallWork, AfterTeardownWork
  <1> QED
    BY <1>2, <1>3

(* A step of the worker is one down in WorkerWork, or more. *)
LEMMA WorkerStepsDescend ==
    ASSUME worker \in Workers, WorkerStep
    PROVE  WorkerWork' < WorkerWork
  <1>1. \/ worker.pc = "starting" /\ worker'.pc \in {"posting", "done"}
        \/ worker.pc = "posting" /\ worker'.pc \in {"ready", "failed"}
        \/ /\ worker.pc \in {"ready", "failed"}
           /\ worker'.pc \in {"done", "holding", "failing"}
        \/ worker.pc = "holding" /\ worker'.pc \in {"done", "applying"}
        \/ worker.pc = "applying" /\ worker'.pc \in {"signalling", "failing"}
        \/ worker.pc \in {"signalling", "failing"} /\ worker'.pc = "done"
    BY DEF Workers, WorkerStep, WhipCreateWorker, PostAnswered, PostFails,
       WorkerTests, CurrentPeerConnection, AppliesAnswer, SignalsAnswer,
       FailConnect, WorkerGoes
  <1> QED
    BY <1>1 DEF WorkerWork

(* Once no session is live nothing but its own steps moves the worker, or  *)
(* the join that ends it.                                                  *)
LEMMA NoWorkerIsStarted ==
    ASSUME [Next]_vars, live = NoSession, call \in {"deleting", "closing", "joining"}
    PROVE  \/ WorkerStep
           \/ worker' = worker
           \/ worker.pc \in {"none", "done"} /\ worker'.pc = "none"
  <1>1. ASSUME NEW s \in Sessions, Callback(s)
        PROVE  worker' = worker
    <2>1. s # live
      BY <1>1 DEF Sessions, NoSession
    <2> QED
      BY <1>1, <2>1, CallbackIsQuietOrStarts DEF ruled
  <1>2. CASE CallStep
    BY <1>2 DEF CallStep, Invalidate, Close, JoinWhipWorker, NoWorker,
       ResetsFlag, ResetConnectState, OpenPeerConnection, Answered, Connected,
       WaitFails, WaitTimesOut, Fail, Delete, Forgets, Disconnected
  <1>3. CASE SenderStep
    BY <1>3 DEF SenderStep, SendVideo, TakesTrack, SendRefused, FrameSent,
       FrameMarks, Sends
  <1>4. CASE Connect \/ Disconnect \/ UNCHANGED vars
    BY <1>4 DEF Connect, Disconnect, vars
  <1> QED
    BY <1>1, <1>2, <1>3, <1>4 DEF Next

(* Connect and Disconnect do a bounded number of steps, and the worker     *)
(* they join does: with the deadlines and timeouts that keep both going,   *)
(* neither call can go on for ever.                                        *)
THEOREM CallsAreFinite == Spec => CallsMakeHeadway
  <1>1. ASSUME SessionInv, [Next]_vars
        PROVE  /\ call # "idle" => CallWork' <= CallWork
               /\ CallStep => CallWork' < CallWork
               /\ WorkerStep => WorkerWork' < WorkerWork
               /\ call \in {"deleting", "closing", "joining"}
                      => WorkerWork' <= WorkerWork
    <2>1. worker \in Workers
      BY <1>1, TypesSplit DEF SessionInv, PlainTypes, Workers
    <2>2. call \in {"deleting", "closing", "joining"} => live = NoSession
      BY <1>1 DEF SessionInv, SessionFollowsCall, Awaiting
    <2>3. CallStep => CallWork' < CallWork
      BY <1>1, TypesSplit, CallStepsDescend DEF SessionInv
    <2>4. WorkerStep => WorkerWork' < WorkerWork
      BY <2>1, WorkerStepsDescend
    <2>5. CallWork \in 0..16 /\ CallWork' \in 0..16
      <3>1. /\ call \in {"idle", "tearing", "closing", "joining", "clearing",
                         "opening", "awaitAnswer", "awaitConnected", "deleting",
                         "disconnecting"}
            /\ call' \in {"idle", "tearing", "closing", "joining", "clearing",
                          "opening", "awaitAnswer", "awaitConnected", "deleting",
                          "disconnecting"}
        <4>1. TypeOK => PlainTypes
          BY TypesSplit
        <4>2. PlainTypes'
          BY <1>1, <4>1, PlainTypesStep DEF SessionInv, Rules
        <4> QED
          BY <1>1, <4>1, <4>2 DEF SessionInv, PlainTypes
      <3>2. AfterTeardownWork \in 0..13 /\ AfterTeardownWork' \in 0..13
        BY DEF AfterTeardownWork
      <3>3. StoreWork \in 0..6 /\ StoreWork' \in 0..6
        <4>1. StoreTypes /\ StoreTypes'
          BY <1>1, TypesSplit, StoreTypeStep DEF SessionInv
        <4> QED
          BY <4>1 DEF StoreTypes, NextStore, StoreWork
      <3> QED
        BY <3>1, <3>2, <3>3 DEF CallWork
    <2>6. call # "idle" => CallWork' <= CallWork
      <3>1. CallStep \/ call = "idle" \/ CallWork' = CallWork
        BY <1>1, OthersLeaveTheCall DEF CallWork, AfterTeardownWork, StoreWork
      <3> QED
        BY <2>3, <2>5, <3>1
    <2>7. WorkerWork \in 0..6 /\ WorkerWork' \in 0..6
      BY DEF WorkerWork
    <2>8. ASSUME call \in {"deleting", "closing", "joining"}
          PROVE  WorkerWork' <= WorkerWork
      <3>1. \/ WorkerStep
            \/ WorkerWork' = WorkerWork
            \/ WorkerWork' = 0
        BY <1>1, <2>2, <2>8, NoWorkerIsStarted DEF WorkerWork
      <3> QED
        BY <2>4, <2>7, <3>1
    <2> QED
      BY <2>3, <2>4, <2>6, <2>8
  <1> QED
    BY <1>1, SessionsStayApart, PTL DEF Spec, CallsMakeHeadway
=============================================================================
