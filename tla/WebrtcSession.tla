---------------------------- MODULE WebrtcSession ----------------------------
(***************************************************************************)
(* WebrtcBackend and its WhipSession (stream/src/backend/webrtc): one      *)
(* control thread that calls Connect and Disconnect, the WHIP worker that  *)
(* posts the offer, libdatachannel's threads that call back, and the       *)
(* encoder thread in SendVideo.                                            *)
(*                                                                         *)
(* A session is one Connect.  session_gen_ is bumped whenever a session    *)
(* ends, so what the code compares it for is whether a session is still    *)
(* the live one: `live` is that session, or 0.                             *)
(*                                                                         *)
(* Granularity.  A callback tests the generation in one step and acts in a *)
(* later one, because no lock covers both.  A step of the control thread   *)
(* ends where another thread can see its effect and act on it.  The flags  *)
(* are atomics stored without a lock, except answer_ready_, which is       *)
(* stored and read under mtx_.  RTP timestamps, statistics, logs and the   *)
(* reports to StreamImpl (StreamCore's subject) are left out.              *)
(***************************************************************************)
EXTENDS Naturals

CONSTANT MaxConnects   \* bounds the calls of Connect

ASSUME SessionAssumption == MaxConnects \in Nat \ {0}

Sessions == 1..MaxConnects
NoSession == 0

VARIABLES
    connects,     \* how often Connect was called: the newest session
    call,         \* where the control thread is
    then,         \* why TeardownConnection runs: the call it is part of
    store,        \* the flag that ResetConnectState clears next
    live,         \* the session session_gen_ still stands for, or 0
    pc,           \* the session pc_ and video_track_ belong to, or 0
    peer,         \* what libdatachannel has reached, per session
    callback,     \* the callback of each session that passed the check
    worker,       \* [pc, session, held]: whip_thread_
    sender,       \* where SendVideo is
    flags,        \* the atomics that ResetConnectState clears
    answer,       \* answer_ready_, connect_result_, and who signalled them
    sendEnabled,  \* send_enabled_
    resource,     \* resource_url_: the session it points to, or 0
    server        \* what became of each session on the server

vars == <<connects, call, then, store, live, pc, peer, callback, worker,
          sender, flags, answer, sendEnabled, resource, server>>

control == <<connects, call, then, store>>
session == <<live, pc, peer>>
whip    == <<resource, server>>

ClearFlags == [offerReady |-> FALSE, gatheringComplete |-> FALSE,
               connected |-> FALSE, trackOpen |-> FALSE, terminal |-> FALSE,
               firstFrame |-> FALSE, streaming |-> FALSE]

Unsignalled == [kind |-> "none", from |-> NoSession]
NoWorker == [pc |-> "none", session |-> NoSession, held |-> NoSession]

Init ==
    /\ connects = 0 /\ call = "idle" /\ then = "none"
    /\ store = "offerReady"
    /\ live = NoSession /\ pc = NoSession
    /\ peer = [s \in Sessions |-> "none"]
    /\ callback = [s \in Sessions |-> "none"]
    /\ worker = NoWorker
    /\ sender = "idle"
    /\ flags = ClearFlags /\ answer = Unsignalled /\ sendEnabled = FALSE
    /\ resource = NoSession /\ server = [s \in Sessions |-> "none"]

(* WhipSession's io_mtx_ is held through the HTTP exchange. *)
IoHeld == worker.pc = "posting"

-----------------------------------------------------------------------------
(* TeardownConnection, which ends every session.                           *)

(* Plausible bug: the send gate is left open. *)
InvalidateOnly ==
    /\ call = "tearing" /\ call' = "closing"
    /\ live' = NoSession
    /\ UNCHANGED <<connects, then, store, pc, peer, callback, worker,
                   sender, flags, answer, sendEnabled, whip>>

Invalidate ==
    /\ call = "tearing" /\ call' = "closing"
    /\ live' = NoSession
    /\ sendEnabled' = FALSE
    /\ UNCHANGED <<connects, then, store, pc, peer, callback, worker,
                   sender, flags, answer, whip>>

Close ==
    /\ call = "closing" /\ call' = "joining"
    /\ pc' = NoSession
    /\ UNCHANGED <<connects, then, store, live, peer, callback, worker,
                   sender, flags, answer, sendEnabled, whip>>

AfterTeardown ==
    call' = CASE then = "connect"    -> "clearing"
              [] then = "disconnect" -> "disconnecting"
              [] OTHER               -> "idle"

(* Plausible bug: the worker is left to itself. *)
JoinNobody ==
    /\ call = "joining"
    /\ AfterTeardown
    /\ UNCHANGED <<connects, then, store, session, callback, worker,
                   sender, flags, answer, sendEnabled, whip>>

JoinWhipWorker ==
    /\ call = "joining"
    /\ worker.pc \in {"none", "done"}
    /\ worker' = NoWorker
    /\ AfterTeardown
    /\ UNCHANGED <<connects, then, store, session, callback, sender, flags,
                   answer, sendEnabled, whip>>

-----------------------------------------------------------------------------
(* Connect: WhipSession::Reset, the old session torn down, the flags       *)
(* cleared, a new PeerConnection, and two waits with a deadline.           *)

Connect ==
    /\ call = "idle" /\ connects < MaxConnects
    /\ ~IoHeld
    /\ connects' = connects + 1
    /\ resource' = NoSession
    /\ call' = "tearing" /\ then' = "connect"
    /\ UNCHANGED <<store, session, callback, worker, sender, flags, answer,
                   sendEnabled, server>>

(* ResetConnectState stores one atomic after the other.  The last step has *)
(* those no other thread touches here: the worker is joined and the gate   *)
(* closed.                                                                 *)
NextStore ==
    [offerReady |-> "gatheringComplete", gatheringComplete |-> "connected",
     connected |-> "trackOpen", trackOpen |-> "terminal",
     terminal |-> "firstFrame", firstFrame |-> "streaming",
     streaming |-> "offerReady"]

ResetsFlag ==
    /\ call = "clearing" /\ store # "streaming"
    /\ flags' = [flags EXCEPT ![store] = FALSE]
    /\ store' = NextStore[store]
    /\ UNCHANGED <<connects, call, then, session, callback, worker, sender,
                   answer, sendEnabled, whip>>

ResetConnectState ==
    /\ call = "clearing" /\ store = "streaming"
    /\ flags' = [flags EXCEPT !.streaming = FALSE]
    /\ answer' = Unsignalled
    /\ sendEnabled' = FALSE
    /\ call' = "opening" /\ store' = NextStore[store]
    /\ UNCHANGED <<connects, then, session, callback, worker, sender,
                   whip>>

OpenPeerConnection ==
    /\ call = "opening" /\ call' = "awaitAnswer"
    /\ pc' = connects
    /\ live' = connects
    /\ peer' = [peer EXCEPT ![connects] = "new"]
    /\ UNCHANGED <<connects, then, store, callback, worker, sender, flags,
                   answer, sendEnabled, whip>>

Answered ==
    /\ call = "awaitAnswer" /\ call' = "awaitConnected"
    /\ answer.kind = "ok"
    /\ UNCHANGED <<connects, then, store, session, callback, worker,
                   sender, flags, answer, sendEnabled, whip>>

Connected ==
    /\ call = "awaitConnected" /\ call' = "idle"
    /\ flags.connected
    /\ sendEnabled' = TRUE
    /\ UNCHANGED <<connects, then, store, session, callback, worker,
                   sender, flags, answer, whip>>

Fail ==
    /\ call' = "tearing" /\ then' = "fail"
    /\ UNCHANGED <<connects, store, session, callback, worker, sender,
                   flags, answer, sendEnabled, whip>>

(* A failed exchange, or a PeerConnection that ended first. *)
WaitFails ==
    /\ \/ call = "awaitAnswer" /\ answer.kind = "failed"
       \/ call = "awaitAnswer" /\ answer.kind = "none" /\ flags.terminal
       \/ call = "awaitConnected" /\ ~flags.connected /\ flags.terminal
    /\ Fail

(* Plausible bug: the waits have no deadline. *)
NoDeadline == FALSE

WaitTimesOut ==
    /\ ~flags.terminal
    /\ \/ call = "awaitAnswer" /\ answer.kind = "none"
       \/ call = "awaitConnected" /\ ~flags.connected
    /\ Fail

-----------------------------------------------------------------------------
(* Disconnect: callbacks are cut off, the WHIP resource is deleted, then   *)
(* the teardown.                                                           *)

Disconnect ==
    /\ call = "idle" /\ call' = "deleting"
    /\ live' = NoSession
    /\ UNCHANGED <<connects, then, store, pc, peer, callback, worker,
                   sender, flags, answer, sendEnabled, whip>>

(* What a DELETE comes to, which is sent if there is a resource on record. *)
Deleted ==
    IF resource = NoSession THEN {server}
    ELSE {[server EXCEPT ![resource] = end] : end \in {"deleted", "undeleted"}}

Forgets ==
    /\ call = "deleting" /\ ~IoHeld
    /\ resource' = NoSession
    /\ call' = "tearing" /\ then' = "disconnect"
    /\ UNCHANGED <<connects, store, session, callback, worker, sender,
                   flags, answer, sendEnabled>>

(* Plausible bug: only a session that got connected is deleted. *)
DeleteIfConnected ==
    /\ Forgets
    /\ server' \in IF flags.connected THEN Deleted ELSE {server}

(* WhipSession::Delete forgets the resource whether or not a DELETE could  *)
(* be sent and the server obeyed.                                          *)
Delete == Forgets /\ server' \in Deleted

Disconnected ==
    /\ call = "disconnecting" /\ call' = "idle"
    /\ flags' = [flags EXCEPT !.connected = FALSE, !.trackOpen = FALSE]
    /\ UNCHANGED <<connects, then, store, session, callback, worker,
                   sender, answer, sendEnabled, whip>>

-----------------------------------------------------------------------------
(* libdatachannel's callbacks.  Transport is what is assumed of it: the    *)
(* events it may report, from which of its states, to which.               *)

Transport ==
    {<<"gathering", "new", "new">>,
     <<"description", "new", "new">>, <<"gathered", "new", "gathered">>,
     <<"description", "gathered", "gathered">>,
     <<"connected", "answered", "up">>, <<"connected", "down", "up">>,
     <<"trackOpen", "up", "open">>, <<"trackClosed", "open", "up">>,
     <<"trackClosed", "up", "up">>, <<"trackClosed", "down", "down">>,
     <<"lost", "up", "down">>, <<"lost", "open", "down">>}
    \cup {<<"ended", p, "ended">> : p \in {"new", "gathered", "answered",
                                           "up", "open", "down"}}

Events == {t[1] : t \in Transport}

(* IsCurrentSession holds: the callback goes on.  Otherwise it is ignored, *)
(* which changes nothing.                                                  *)
IsCurrentSession(s, e) ==
    /\ callback[s] = "none"
    /\ live = s
    /\ \E t \in Transport :
           /\ t[1] = e /\ t[2] = peer[s]
           /\ peer' = [peer EXCEPT ![s] = t[3]]
    /\ callback' = [callback EXCEPT ![s] = e]
    /\ UNCHANGED <<control, live, pc, worker, sender, flags, answer,
                   sendEnabled, whip>>

ActsOn(s, next) ==
    /\ callback' = [callback EXCEPT ![s] = next]
    /\ UNCHANGED <<control, session, sender, answer, sendEnabled, whip>>

OnStateChange(s) ==
    /\ \/ /\ callback[s] = "connected"
          /\ flags' = [flags EXCEPT !.connected = TRUE]
       \/ /\ callback[s] = "lost"
          /\ flags' = [flags EXCEPT !.connected = FALSE, !.trackOpen = FALSE]
       \/ /\ callback[s] = "ended"
          /\ flags' = [flags EXCEPT !.connected = FALSE, !.trackOpen = FALSE,
                                    !.terminal = TRUE]
    /\ ActsOn(s, "none")
    /\ UNCHANGED worker

(* ClaimOfferSend, after the callback's own effect on the flags f. *)
ClaimOfferSend(s, f) ==
    /\ flags' = [f EXCEPT !.offerReady = TRUE]
    /\ ActsOn(s, IF f.offerReady THEN "none" ELSE "claimed")
    /\ UNCHANGED worker

OnLocalDescription(s) ==
    /\ callback[s] = "description"
    /\ IF flags.gatheringComplete
       THEN ClaimOfferSend(s, flags)
       ELSE ActsOn(s, "none") /\ UNCHANGED <<flags, worker>>

OnGatheringStateChange(s) ==
    \/ /\ callback[s] = "gathered"
       /\ ClaimOfferSend(s, [flags EXCEPT !.gatheringComplete = TRUE])
    \/ /\ callback[s] = "gathering"
       /\ flags' = [flags EXCEPT !.gatheringComplete = FALSE]
       /\ ActsOn(s, "none")
       /\ UNCHANGED worker

StartWorker(s) == worker' = [NoWorker EXCEPT !.pc = "starting", !.session = s]

(* Plausible bug: the generation is not compared again under mtx_. *)
SendOfferUnchecked(s) ==
    /\ callback[s] = "claimed"
    /\ IF worker.pc = "none" THEN StartWorker(s) ELSE UNCHANGED worker
    /\ ActsOn(s, "none")
    /\ UNCHANGED flags

(* Under mtx_ again: the session may have ended since, and whip_thread_    *)
(* stays joinable until a teardown joins it.                               *)
SendOfferToWhip(s) ==
    /\ callback[s] = "claimed"
    /\ IF live = s /\ worker.pc = "none" THEN StartWorker(s)
                                         ELSE UNCHANGED worker
    /\ ActsOn(s, "none")
    /\ UNCHANGED flags

TryMarkStreaming(f) ==
    [f EXCEPT !.streaming = @ \/ (f.trackOpen /\ f.firstFrame)]

OnTrackOpen(s) ==
    \/ /\ callback[s] = "trackOpen"
       /\ flags' = [flags EXCEPT !.trackOpen = TRUE]
       /\ ActsOn(s, "marking")
       /\ UNCHANGED worker
    \/ /\ callback[s] = "marking"
       /\ flags' = TryMarkStreaming(flags)
       /\ ActsOn(s, "none")
       /\ UNCHANGED worker

OnTrackClosed(s) ==
    /\ callback[s] = "trackClosed"
    /\ flags' = [flags EXCEPT !.trackOpen = FALSE]
    /\ ActsOn(s, "none")
    /\ UNCHANGED worker

-----------------------------------------------------------------------------
(* The WHIP worker: WhipCreateWorker, WhipSession::Create and the handlers *)
(* Create calls once it has given io_mtx_ up.                              *)

WorkerGoes(next) ==
    /\ worker' = [worker EXCEPT !.pc = next]
    /\ UNCHANGED <<control, live, pc, callback, sender, flags,
                   sendEnabled>>

WorkerIsCurrent == live = worker.session

WhipCreateWorker ==
    /\ worker.pc = "starting"
    /\ WorkerGoes(IF WorkerIsCurrent THEN "posting" ELSE "done")
    /\ UNCHANGED <<peer, answer, whip>>

(* 201 Created with an SDP and a Location. *)
PostAnswered ==
    /\ worker.pc = "posting"
    /\ resource' = worker.session
    /\ server' = [server EXCEPT ![worker.session] = "kept"]
    /\ WorkerGoes("ready")
    /\ UNCHANGED <<peer, answer>>

(* No reply, or one that Create rejects: the server may have created the   *)
(* session all the same, and its Location is not known.                    *)
PostFails ==
    /\ worker.pc = "posting"
    /\ resource' = NoSession
    /\ server' \in {server, [server EXCEPT ![worker.session] = "unlocated"]}
    /\ WorkerGoes("failed")
    /\ UNCHANGED <<peer, answer>>

(* OnWhipReady and OnWhipError test the generation before they act. *)
WorkerTests ==
    /\ worker.pc \in {"ready", "failed"}
    /\ WorkerGoes(CASE ~WorkerIsCurrent       -> "done"
                    [] worker.pc = "ready"    -> "holding"
                    [] OTHER                  -> "failing")
    /\ UNCHANGED <<peer, answer, whip>>

(* Plausible bug: the PeerConnection may be gone and is used all the same. *)
UsesAnyPeerConnection ==
    /\ worker.pc = "holding"
    /\ worker' = [worker EXCEPT !.held = pc, !.pc = "applying"]
    /\ UNCHANGED <<control, session, callback, sender, flags, answer,
                   sendEnabled, whip>>

CurrentPeerConnection ==
    /\ worker.pc = "holding"
    /\ worker' = [worker EXCEPT !.held = pc,
                      !.pc = IF pc = NoSession THEN "done" ELSE "applying"]
    /\ UNCHANGED <<control, session, callback, sender, flags, answer,
                   sendEnabled, whip>>

(* setRemoteDescription, which throws on an answer it cannot use. *)
AppliesAnswer ==
    /\ worker.pc = "applying"
    /\ \/ /\ peer' = [peer EXCEPT ![worker.held] =
                          IF @ = "gathered" THEN "answered" ELSE @]
          /\ WorkerGoes("signalling")
       \/ WorkerGoes("failing") /\ UNCHANGED peer
    /\ UNCHANGED <<answer, whip>>

SignalsAnswer ==
    /\ worker.pc = "signalling"
    /\ answer' = [kind |-> IF answer.kind = "failed" THEN "failed" ELSE "ok",
                  from |-> worker.held]
    /\ WorkerGoes("done")
    /\ UNCHANGED <<peer, whip>>

FailConnect ==
    /\ worker.pc = "failing"
    /\ answer' = IF answer.kind # "none" THEN answer
                 ELSE [kind |-> "failed", from |-> worker.session]
    /\ WorkerGoes("done")
    /\ UNCHANGED <<peer, whip>>

-----------------------------------------------------------------------------
(* SendVideo, on the encoder thread.                                       *)

Sends(next) ==
    /\ sender' = next
    /\ UNCHANGED <<control, session, callback, worker, answer, sendEnabled,
                   whip>>

SendVideo ==
    /\ sender = "idle" /\ sendEnabled
    /\ Sends("gated") /\ UNCHANGED flags

(* video_track_ is copied under mtx_; then the media path is looked at. *)
TakesTrack ==
    /\ sender = "gated"
    /\ Sends(IF pc # NoSession /\ (flags.connected \/ flags.trackOpen)
             THEN "sending" ELSE "idle")
    /\ UNCHANGED flags

SendRefused == sender = "sending" /\ Sends("idle") /\ UNCHANGED flags

(* Plausible bug: streaming is looked at before the frame is counted. *)
MarksBeforeFrame ==
    /\ sender = "sending"
    /\ flags' = [TryMarkStreaming(flags) EXCEPT !.firstFrame = TRUE]
    /\ Sends("idle")

FrameSent ==
    /\ sender = "sending"
    /\ flags' = [flags EXCEPT !.firstFrame = TRUE]
    /\ Sends("marking")

FrameMarks ==
    /\ sender = "marking"
    /\ flags' = TryMarkStreaming(flags)
    /\ Sends("idle")

-----------------------------------------------------------------------------
(* What goes on inside a call of Connect or Disconnect. *)
CallStep ==
    \/ Invalidate \/ Close \/ JoinWhipWorker
    \/ ResetsFlag \/ ResetConnectState \/ OpenPeerConnection
    \/ Answered \/ Connected \/ WaitFails \/ WaitTimesOut
    \/ Delete \/ Disconnected

Callback(s) ==
    \/ \E e \in Events : IsCurrentSession(s, e)
    \/ OnStateChange(s) \/ OnLocalDescription(s) \/ OnGatheringStateChange(s)
    \/ SendOfferToWhip(s) \/ OnTrackOpen(s) \/ OnTrackClosed(s)

WorkerStep ==
    \/ WhipCreateWorker \/ PostAnswered \/ PostFails \/ WorkerTests
    \/ CurrentPeerConnection \/ AppliesAnswer \/ SignalsAnswer \/ FailConnect

SenderStep ==
    \/ SendVideo \/ TakesTrack \/ SendRefused \/ FrameSent \/ FrameMarks

Next ==
    \/ Connect \/ Disconnect \/ CallStep
    \/ \E s \in Sessions : Callback(s)
    \/ WorkerStep \/ SenderStep

(* Connect's waits have deadlines and the HTTP client a total timeout: the *)
(* control thread and the worker keep going.  Callbacks are owed nothing.  *)
Spec == Init /\ [][Next]_vars /\ WF_vars(CallStep) /\ WF_vars(WorkerStep)
-----------------------------------------------------------------------------
(* Properties.                                                             *)

(* Every variable has its type; no description is set on a null pc_. *)
TypeOK ==
    /\ connects \in 0..MaxConnects
    /\ call \in {"idle", "tearing", "closing", "joining", "clearing",
                 "opening", "awaitAnswer", "awaitConnected", "deleting",
                 "disconnecting"}
    /\ then \in {"none", "connect", "fail", "disconnect"}
    /\ {live, pc, resource} \subseteq {NoSession} \cup Sessions
    /\ peer \in [Sessions -> {"none", "new", "gathered", "answered", "up",
                              "open", "down", "ended"}]
    /\ callback \in [Sessions -> Events \cup {"none", "claimed", "marking"}]
    /\ worker \in [pc : {"none", "starting", "posting", "ready", "failed",
                         "holding", "applying", "signalling", "failing",
                         "done"},
                   session : {NoSession} \cup Sessions,
                   held : {NoSession} \cup Sessions]
    /\ worker.pc = "applying" => worker.held \in Sessions
    /\ sender \in {"idle", "gated", "sending", "marking"}
    /\ flags \in [DOMAIN ClearFlags -> BOOLEAN]
    /\ answer \in [kind : {"none", "ok", "failed"},
                   from : {NoSession} \cup Sessions]
    /\ sendEnabled \in BOOLEAN
    /\ store \in DOMAIN NextStore
    /\ server \in [Sessions -> {"none", "kept", "unlocated", "deleted",
                                "undeleted"}]

(* What Connect is told while it waits, an answer or a failure, was        *)
(* signalled for its own session: a worker of an earlier one is joined     *)
(* before the flags are cleared, so it can neither fail the new Connect    *)
(* nor pass its own answer off as the new one's.                           *)
SignalIsOwn ==
    call \in {"awaitAnswer", "awaitConnected"} /\ answer.kind # "none"
        => answer.from = connects

(* Outside a session there is no worker: none survives the teardown that   *)
(* joined it, and no late callback starts one afterwards that would be     *)
(* destroyed joinable or post for a session that is gone.                  *)
WorkerIsJoined ==
    call = "idle" /\ pc = NoSession => worker = NoWorker

Keeps(s) == s # NoSession /\ server[s] = "kept"

(* A session the server answered with a Location is not left there: when   *)
(* Disconnect has returned, the last Connect's has been sent a DELETE,     *)
(* whether that Connect succeeded, failed, or timed out with its POST under *)
(* way.  What may be left is a session whose reply was lost or rejected,   *)
(* and one whose DELETE failed.                                            *)
LastSessionIsLetGo ==
    call = "idle" /\ then = "disconnect" =>
        /\ resource = NoSession
        /\ ~Keeps(connects)

(* The gate of SendVideo is open only for the session of the last Connect, *)
(* answered and with its PeerConnection in place (webrtc_backend.h, on     *)
(* send_enabled_): never while Connect re-initialises the media objects.   *)
GateNeedsSession ==
    sendEnabled =>
        /\ call \in {"idle", "deleting", "tearing"}
        /\ pc # NoSession
        /\ answer = [kind |-> "ok", from |-> pc]

(* kStreaming is not missed: once the newest session's track has opened    *)
(* and a frame was sent, on two threads that may run at once, one of them  *)
(* reports it, whatever late callbacks and frames of the session before    *)
(* did to the flags while they were reset.                                 *)
StreamingIsReported ==
    \A s \in Sessions :
        /\ s = connects /\ peer[s] = "open" /\ callback[s] # "trackOpen"
        /\ flags.trackOpen /\ flags.firstFrame
        /\ sender # "marking"
        /\ \A t \in Sessions : callback[t] # "marking"
        => flags.streaming

(* The strengthening that makes these inductive.  Where the control thread *)
(* is says which session is live and has its PeerConnection; ...           *)
Awaiting == call \in {"awaitAnswer", "awaitConnected"}
Tearing(why) == call \in {"tearing", "closing", "joining"} /\ then \in why

SessionFollowsCall ==
    /\ live # NoSession =>
           /\ live = pc
           /\ \/ call = "idle" \/ Awaiting
              \/ call = "tearing" /\ then \in {"connect", "fail"}
           /\ live = connects \/ Tearing({"connect"})
    /\ pc # NoSession => call \notin {"joining", "clearing", "opening",
                                      "disconnecting"}
    /\ (call \in {"idle", "deleting"} /\ pc # NoSession) => pc = connects
    /\ Awaiting => live = connects /\ connects # 0 /\ then = "connect"
    /\ call \in {"clearing", "opening"} => then = "connect"
    /\ call \in {"clearing", "opening"} \/ Tearing({"connect"}) => connects # 0

(* ... a worker is busy only for the newest session, and not once that has *)
(* been told its answer or is torn down by a new call; ...                 *)
Busy == worker.pc \notin {"none", "done"}

WorkerFollowsCall ==
    /\ Busy => worker.session = connects /\ connects # 0
    /\ Busy => Awaiting \/ Tearing({"fail"})
    /\ Awaiting /\ answer.kind # "none" => worker.pc = "done"
    /\ Awaiting /\ worker.pc \in {"applying", "signalling"}
           => worker.held = connects
    /\ call = "opening" => answer.kind = "none"
    /\ call = "awaitConnected" => answer.kind = "ok"
    /\ call \in {"clearing", "opening", "disconnecting"} => worker = NoWorker
    /\ call \in {"idle", "deleting"}
           => worker.pc = (IF pc = NoSession THEN "none" ELSE "done")
    /\ (Tearing({"connect"}) /\ live # NoSession) => worker.pc = "done"
    /\ sendEnabled => worker.pc = "done"

(* ... and the server keeps the newest session only as the resource on     *)
(* record.                                                                 *)
ResourceFollowsServer ==
    /\ Keeps(connects) => resource = connects
    /\ resource <= connects
    /\ \A s \in Sessions : s > connects => server[s] = "none"
    /\ worker.pc \in {"starting", "posting"} => ~Keeps(connects)
    /\ live # NoSession /\ worker.pc = "none" => ~Keeps(connects)
    /\ call \in {"clearing", "opening"} \/ Tearing({"connect"})
           => ~Keeps(connects)
    /\ Tearing({"disconnect"}) \/ call = "disconnecting"
           => ~Keeps(connects) /\ resource = NoSession
    /\ call = "disconnecting" => then = "disconnect"

SessionInv ==
    /\ TypeOK /\ SignalIsOwn /\ WorkerIsJoined /\ LastSessionIsLetGo
    /\ GateNeedsSession
    /\ SessionFollowsCall /\ WorkerFollowsCall /\ ResourceFollowsServer

(* Connect and Disconnect return, whatever the server and the transport    *)
(* do or fail to do.                                                       *)
CallsReturn == call # "idle" ~> call = "idle"

(* webrtc_backend.h:38-41: events of an old PeerConnection are ignored     *)
(* instead of touching the members of the new session.                     *)
OldEventsAreIgnored ==
    [][\A s \in Sessions :
          callback'[s] # callback[s] /\ s # live /\ live # NoSession
              => UNCHANGED flags]_vars
=============================================================================
