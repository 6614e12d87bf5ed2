------------------------------ MODULE StreamCore ------------------------------
(***************************************************************************)
(* The lifecycle of StreamImpl (stream/src/core/stream_impl.{h,cc}): the   *)
(* caller's thread in Init, Start, Stop and Release, the reconnect worker, *)
(* and the transport threads that report the backend's state through       *)
(* OnBackendStatusChange.                                                  *)
(*                                                                         *)
(* Granularity.  A step ends where the code gives up status_mtx_, calls    *)
(* the backend, or stores an atomic another thread acts on.  Between the   *)
(* test of re_stop_ and the exchange of reconnect_armed_ a transport       *)
(* thread keeps status_mtx_ while StopReconnectWorker, which does not take *)
(* it, may run: `arming` marks that window.                                *)
(*                                                                         *)
(* The backend is modelled from what its callers see: Connect takes a      *)
(* while and succeeds only on a connected session, and each session's      *)
(* state changes are reported by a callback that may already be past the   *)
(* backend's session check when a new session replaces it.  Backoff counts *)
(* (ReconnectHandler) are left to whether a tick is due; counters, bitrate *)
(* and SendVideo/SendAudio are not in this module.                         *)
(***************************************************************************)
EXTENDS Naturals

States == {"kCreated", "kConfigured", "kConnecting", "kStreaming",
           "kReconnecting", "kDisconnected", "kDestroyed", "kIceConnected"}

Active == {"kStreaming", "kReconnecting"}

VARIABLES
    state,       \* status_.state
    user,        \* where the caller's thread is
    releasing,   \* Stop() was called by Release()
    worker,      \* where reconnect_thread_ is
    stop,        \* re_stop_
    armed,       \* reconnect_armed_
    arming,      \* a transport thread is about to exchange reconnect_armed_
    retrying,    \* reconnect_handler_->reconnecting_
    built,       \* backend_ and reconnect_handler_ exist
    link,        \* the backend's current session
    inflight,    \* the state a transport callback is delivering, or "none"
    framed,      \* streaming_reported_: this session has sent a frame
    stopped,     \* history: Stop() returned after Start()
    torndown     \* history: a Stop() or Release() took the session down

vars == <<state, user, releasing, worker, stop, armed, arming, retrying, built,
          link, inflight, framed, stopped, torndown>>

control == <<user, releasing>>
retry   == <<worker, stop, armed, retrying>>
backend == <<link, inflight, framed>>
history == <<stopped, torndown>>

Init ==
    /\ state = "kCreated"
    /\ user = "idle" /\ releasing = FALSE
    /\ worker = "none" /\ stop = FALSE /\ armed = FALSE /\ arming = FALSE
    /\ retrying = FALSE /\ built = FALSE
    /\ link = "none" /\ inflight = "none" /\ framed = FALSE
    /\ stopped = FALSE /\ torndown = FALSE

(* UpdateStatus, and every other block under status_mtx_. *)
HoldingStatus == ~arming
UpdateStatus(s) == HoldingStatus /\ state' = s

-----------------------------------------------------------------------------
(* Init and Start.                                                         *)

(* The backend exists before the worker, and the worker before kConfigured. *)
StreamInit ==
    /\ user = "idle" /\ state = "kCreated"
    /\ UpdateStatus("kConfigured")
    /\ built' = TRUE
    /\ worker' = "waiting"
    /\ stop' = FALSE /\ armed' = FALSE
    /\ UNCHANGED <<control, arming, retrying, backend, history>>

(* An invalid configuration, or no backend of that name. *)
StreamInitFails ==
    /\ user = "idle" /\ state = "kCreated"
    /\ UpdateStatus("kDisconnected")
    /\ UNCHANGED <<control, retry, arming, built, backend, history>>

(* backend_->Connect begins: the old session goes and its flags are reset. *)
NewSession == link' = "connecting" /\ framed' = FALSE

(* Start: kConnecting, then backend_->Connect on this thread. *)
Start ==
    /\ user = "idle" /\ state = "kConfigured"
    /\ UpdateStatus("kConnecting")
    /\ user' = "connecting"
    /\ NewSession
    /\ UNCHANGED <<releasing, retry, arming, built, inflight, history>>

StartConnected ==
    /\ user = "connecting" /\ link = "up"
    /\ user' = "connected"
    /\ UNCHANGED <<state, releasing, retry, arming, built, backend, history>>

StartReports ==
    /\ user = "connected"
    /\ UpdateStatus("kStreaming")
    /\ user' = "idle"
    /\ UNCHANGED <<releasing, retry, arming, built, backend, history>>

(* A failed Connect has torn its session down, which may have come up just *)
(* as the wait timed out.                                                  *)
StartConnectFails ==
    /\ user = "connecting"
    /\ user' = "connectFailed"
    /\ link' = "none"
    /\ UNCHANGED <<state, releasing, retry, arming, built, inflight, framed,
                   history>>

ScheduleReconnect ==
    /\ user = "connectFailed"
    /\ armed' = (armed \/ ~stop)
    /\ user' = "scheduled"
    /\ UNCHANGED <<state, releasing, worker, stop, retrying, arming, built,
                   backend, history>>

StartReportsRetry ==
    /\ user = "scheduled"
    /\ UpdateStatus("kReconnecting")
    /\ user' = "idle"
    /\ UNCHANGED <<releasing, retry, arming, built, backend, history>>

-----------------------------------------------------------------------------
(* Stop and Release.                                                       *)

Stop ==
    /\ user = "idle" /\ HoldingStatus /\ state \in Active
    /\ user' = "stopping"
    /\ UNCHANGED <<state, releasing, retry, arming, built, backend, history>>

(* Not streaming and not reconnecting: there is nothing to stop. *)
StopIgnored ==
    /\ user = "idle" /\ HoldingStatus
    /\ state \notin Active \cup {"kCreated", "kConfigured"}
    /\ stopped' = TRUE
    /\ UNCHANGED <<state, control, retry, arming, built, backend, torndown>>

(* Plausible bug: the worker is disarmed but not told to stop. *)
StopOnlyDisarms ==
    /\ armed' = FALSE
    /\ UNCHANGED <<state, releasing, worker, stop, arming, retrying, built,
                   backend, history>>

StopReconnectWorker ==
    /\ stop' = TRUE
    /\ armed' = FALSE
    /\ UNCHANGED <<state, releasing, worker, arming, retrying, built, backend,
                   history>>

WorkerJoined == worker \in {"none", "exited"}

StopStopsWorker == user = "stopping" /\ user' = "joining" /\ StopReconnectWorker

(* Plausible bug: Stop and Release do not wait for the worker. *)
StopDisconnectsUnjoined ==
    /\ user = "joining"
    /\ retrying' = FALSE
    /\ link' = "none"
    /\ UpdateStatus("kDisconnected")
    /\ user' = "disconnected"
    /\ UNCHANGED <<releasing, worker, stop, armed, arming, built, inflight,
                   framed, history>>

(* Joined: the handler is reset and backend_->Disconnect reports           *)
(* kDisconnected on this thread.                                           *)
StopDisconnects ==
    /\ user = "joining" /\ WorkerJoined
    /\ retrying' = FALSE
    /\ link' = "none"
    /\ UpdateStatus("kDisconnected")
    /\ user' = "disconnected"
    /\ UNCHANGED <<releasing, worker, stop, armed, arming, built, inflight,
                   framed, history>>

StopReturns ==
    /\ user = "disconnected"
    /\ UpdateStatus("kDisconnected")
    /\ user' = IF releasing THEN "releasing" ELSE "idle"
    /\ stopped' = TRUE /\ torndown' = TRUE
    /\ UNCHANGED <<releasing, retry, arming, built, backend>>

Release ==
    /\ user = "idle" /\ HoldingStatus /\ ~releasing
    /\ releasing' = TRUE
    /\ user' = IF state \in Active THEN "releaseActive" ELSE "releasing"
    /\ UNCHANGED <<state, retry, arming, built, backend, history>>

(* Release saw an active stream; the Stop it calls looks again. *)
ReleaseStops ==
    /\ user = "releaseActive" /\ HoldingStatus
    /\ user' = IF state \in Active THEN "stopping" ELSE "releasing"
    /\ UNCHANGED <<state, releasing, retry, arming, built, backend, history>>

ReleaseStopsWorker ==
    user = "releasing" /\ user' = "releaseJoining" /\ StopReconnectWorker

ReleaseResetsUnjoined ==
    /\ user = "releaseJoining"
    /\ built' = FALSE /\ retrying' = FALSE /\ link' = "none"
    /\ IF built THEN UpdateStatus("kDisconnected") ELSE UNCHANGED state
    /\ user' = "destroying"
    /\ UNCHANGED <<releasing, worker, stop, armed, arming, inflight, framed,
                   history>>

(* The handler goes first; ~Backend then disconnects, and its kDisconnected *)
(* finds no handler.                                                        *)
ReleaseResets ==
    /\ user = "releaseJoining" /\ WorkerJoined
    /\ built' = FALSE
    /\ retrying' = FALSE
    /\ link' = "none"
    /\ IF built THEN UpdateStatus("kDisconnected") ELSE UNCHANGED state
    /\ user' = "destroying"
    /\ UNCHANGED <<releasing, worker, stop, armed, arming, inflight, framed,
                   history>>

(* Nothing here waits for a callback that is past the session check: its   *)
(* report may still come, and replaces kDestroyed.                         *)
ReleaseReturns ==
    /\ user = "destroying"
    /\ UpdateStatus("kDestroyed")
    /\ user' = "released"
    /\ torndown' = TRUE
    /\ UNCHANGED <<releasing, retry, arming, built, backend, stopped>>

-----------------------------------------------------------------------------
(* RunReconnectWorker and AttemptReconnect.                                *)

WorkerExits ==
    /\ worker = "waiting" /\ stop
    /\ worker' = "exited"
    /\ UNCHANGED <<state, control, stop, armed, retrying, arming, built,
                   backend, history>>

(* An armed worker's tick: the first starts the handler's backoff. *)
WorkerTicks ==
    /\ worker = "waiting" /\ ~stop /\ armed
    /\ worker' = "ticking"
    /\ UNCHANGED <<state, control, stop, armed, retrying, arming, built,
                   backend, history>>

(* Plausible bug: a tick disarms before its retry is due. *)
WorkerTicksOnce ==
    /\ worker = "ticking"
    /\ retrying' = TRUE /\ armed' = FALSE
    /\ worker' = "waiting"
    /\ UNCHANGED <<state, control, stop, arming, built, backend, history>>

WorkerNotDue ==
    /\ worker = "ticking"
    /\ retrying' = TRUE
    /\ worker' = "waiting"
    /\ UNCHANGED <<state, control, stop, armed, arming, built, backend, history>>

(* A retry is due: the new Connect first tears the old session down. *)
WorkerRetries ==
    /\ worker = "ticking"
    /\ retrying' = TRUE
    /\ worker' = "connecting"
    /\ NewSession
    /\ UNCHANGED <<state, control, stop, armed, arming, built, inflight, history>>

WorkerConnected ==
    /\ worker = "connecting" /\ link = "up"
    /\ worker' = "connected"
    /\ UNCHANGED <<state, control, stop, armed, retrying, arming, built,
                   backend, history>>

WorkerConnectFails ==
    /\ worker = "connecting"
    /\ worker' = "waiting"
    /\ link' = "none"
    /\ UNCHANGED <<state, control, stop, armed, retrying, arming, built,
                   inflight, framed, history>>

WorkerDisarms ==
    /\ worker = "connected"
    /\ retrying' = FALSE /\ armed' = FALSE
    /\ worker' = "reporting"
    /\ UNCHANGED <<state, control, stop, arming, built, backend, history>>

WorkerReports ==
    /\ worker = "reporting"
    /\ UpdateStatus("kStreaming")
    /\ worker' = "waiting"
    /\ UNCHANGED <<control, stop, armed, retrying, arming, built, backend,
                   history>>

-----------------------------------------------------------------------------
(* The transport: a session's state changes, each reported by a callback,  *)
(* one callback at a time.                                                 *)

Session(from, to, report) ==
    /\ link \in from
    /\ inflight = "none"
    /\ link' = to
    /\ inflight' = report
    /\ UNCHANGED <<state, control, retry, arming, built, framed, history>>

Connecting == Session({"connecting"}, "connecting", "kConnecting")

(* Up for the first time, or again after an interruption. *)
Connects == Session({"connecting", "interrupted"}, "up", "kIceConnected")

Interrupted == Session({"connecting", "up"}, "interrupted", "kDisconnected")

Failed == Session({"connecting", "up", "interrupted"}, "failed", "kDisconnected")

Closed == Session({"connecting", "up", "interrupted"}, "closed", "kDestroyed")

(* Once for each session, when its track is open and a frame was sent, it  *)
(* reports kStreaming: on the transport's thread if the track opened last, *)
(* else on the thread of the caller, whose SendVideo sent the frame.       *)
FrameSent ==
    /\ link = "up" /\ ~framed
    /\ worker # "connecting" /\ user # "connecting"
    /\ framed' = TRUE

TrackOpens ==
    /\ FrameSent
    /\ inflight = "none" /\ inflight' = "kStreaming"
    /\ UNCHANGED <<state, control, retry, arming, built, link, history>>

SendVideo ==
    /\ user = "idle" /\ built
    /\ FrameSent
    /\ user' = "sending"
    /\ UNCHANGED <<state, releasing, retry, arming, built, link, inflight,
                   history>>

SendReports ==
    /\ user = "sending"
    /\ UpdateStatus("kStreaming")
    /\ user' = "idle"
    /\ UNCHANGED <<releasing, retry, arming, built, backend, history>>

(* OnBackendStatusChange: what is reported replaces status_, except that a *)
(* drop of an active stream arms the worker.                               *)
IsDrop == inflight = "kDisconnected" /\ state \in Active /\ built /\ ~stop

(* Plausible bug: status_ replaced although nothing was reported. *)
DeliverUnasked ==
    /\ HoldingStatus /\ ~IsDrop
    /\ state' = inflight
    /\ inflight' = "none"
    /\ UNCHANGED <<control, retry, arming, built, link, framed, history>>

Deliver ==
    /\ inflight # "none" /\ HoldingStatus
    /\ ~IsDrop
    /\ state' = inflight
    /\ inflight' = "none"
    /\ UNCHANGED <<control, retry, arming, built, link, framed, history>>

DeliverDrop ==
    /\ inflight # "none" /\ HoldingStatus
    /\ IsDrop
    /\ arming' = TRUE
    /\ UNCHANGED <<state, control, retry, built, backend, history>>

Arm ==
    /\ arming
    /\ armed' = TRUE
    /\ state' = "kReconnecting"
    /\ arming' = FALSE
    /\ inflight' = "none"
    /\ UNCHANGED <<control, worker, stop, retrying, built, link, framed, history>>

-----------------------------------------------------------------------------
(* What the caller chooses to call, and how a call it made goes on. *)
Calls == StreamInit \/ StreamInitFails \/ Start \/ Stop \/ StopIgnored \/ Release
             \/ SendVideo

CallSteps ==
    \/ StartConnected \/ StartReports \/ SendReports
    \/ StartConnectFails \/ ScheduleReconnect \/ StartReportsRetry
    \/ StopStopsWorker \/ StopDisconnects \/ StopReturns
    \/ ReleaseStops \/ ReleaseStopsWorker \/ ReleaseResets \/ ReleaseReturns

Worker ==
    \/ WorkerExits \/ WorkerTicks \/ WorkerNotDue \/ WorkerRetries
    \/ WorkerConnected \/ WorkerConnectFails \/ WorkerDisarms \/ WorkerReports

Transport == Connecting \/ Connects \/ Interrupted \/ Failed \/ Closed \/ TrackOpens

Callback == Deliver \/ DeliverDrop \/ Arm

Done == user = "released" /\ UNCHANGED vars

Next == Calls \/ CallSteps \/ Worker \/ Transport \/ Callback \/ Done

(* A call that was made, a callback and the worker's loop all run on; a    *)
(* tick is due in the end (ReconnectHandler).  Nothing obliges the caller  *)
(* to call or the network to change.  Strong fairness where a step takes   *)
(* status_mtx_, which a thread that keeps asking for it gets in the end.   *)
Fairness ==
    /\ SF_vars(CallSteps)
    /\ WF_vars(Callback)
    /\ WF_vars(WorkerExits \/ WorkerTicks \/ WorkerNotDue \/ WorkerRetries)
    /\ SF_vars(WorkerRetries)
    /\ WF_vars(WorkerConnected \/ WorkerConnectFails)
    /\ WF_vars(WorkerDisarms) /\ SF_vars(WorkerReports)

Spec == Init /\ [][Next]_vars /\ Fairness

-----------------------------------------------------------------------------
(* Properties.                                                             *)

(* Every variable has its type. *)
TypeOK ==
    /\ state \in States
    /\ user \in {"idle", "sending", "connecting", "connected", "connectFailed",
                 "scheduled", "stopping", "joining", "disconnected",
                 "releaseActive", "releasing", "releaseJoining", "destroying",
                 "released"}
    /\ worker \in {"none", "waiting", "ticking", "connecting", "connected",
                   "reporting", "exited"}
    /\ releasing \in BOOLEAN /\ stop \in BOOLEAN /\ armed \in BOOLEAN
    /\ arming \in BOOLEAN /\ retrying \in BOOLEAN /\ built \in BOOLEAN
    /\ link \in {"none", "connecting", "up", "interrupted", "failed", "closed"}
    /\ inflight \in {"none", "kConnecting", "kIceConnected", "kStreaming",
                     "kDisconnected", "kDestroyed"}
    /\ framed \in BOOLEAN /\ stopped \in BOOLEAN /\ torndown \in BOOLEAN

(* stream_impl.h:48: the worker is joined before the handler and the       *)
(* backend it uses are torn down, and no reconnect is armed without one.   *)
WorkerHasItsParts ==
    /\ ~WorkerJoined => built
    /\ armed /\ ~stop => ~WorkerJoined

(* Connect and Disconnect of one backend never overlap, though Start, Stop *)
(* and the worker call them on two threads: the backend's members are      *)
(* reassigned in Connect without a lock against another Connect.           *)
OneConnectAtATime ==
    worker = "connecting" =>
        user \notin {"connecting", "disconnected", "destroying", "released"}

(* Once a Stop that found an active stream, or a Release, has returned,    *)
(* there is no session and no worker left to make one.                     *)
TearDownIsFinal ==
    torndown => link = "none" /\ WorkerJoined /\ stop

(* The strengthening that makes the invariants above inductive.            *)

(* Before Start there is no session, and nothing is armed. *)
FreshIsQuiet ==
    state \in {"kCreated", "kConfigured"} =>
        /\ link = "none" /\ inflight = "none" /\ ~torndown
        /\ ~arming /\ ~armed /\ worker \in {"none", "waiting", "exited"}
        /\ user \in {"idle", "releasing", "releaseJoining", "destroying"}
        /\ state = "kConfigured" => built

(* The first Connect, on the caller's thread, cannot be armed over. *)
FirstConnectIsAlone ==
    user = "connecting" =>
        /\ state \notin Active /\ inflight # "kStreaming"
        /\ ~arming /\ ~armed /\ worker \in {"none", "waiting", "exited"}

(* Who needs the backend has it, and a worker runs until it is stopped. *)
PartsInUse ==
    /\ user \in {"sending", "connecting", "connected", "connectFailed", "scheduled"}
           => built
    /\ arming => built /\ inflight = "kDisconnected"
    /\ built /\ ~stop => ~WorkerJoined

(* What a teardown has done stays done on the way to its return. *)
TearDownSteps ==
    /\ user \in {"joining", "releaseJoining"} => stop
    /\ user \in {"disconnected", "destroying", "released"} =>
           link = "none" /\ WorkerJoined /\ stop

LifecycleInv ==
    /\ TypeOK /\ WorkerHasItsParts /\ OneConnectAtATime /\ TearDownIsFinal
    /\ FreshIsQuiet /\ FirstConnectIsAlone /\ PartsInUse /\ TearDownSteps

(* An armed reconnect is attempted unless the stream is stopped first. *)
ArmedIsAttempted ==
    (armed /\ worker = "waiting" /\ ~stop) ~> (worker = "connecting" \/ stop)

(* Every call returns: joining the worker never waits on something that    *)
(* waits for the caller.                                                   *)
CallsReturn == (user \notin {"idle", "released"}) ~> (user \in {"idle", "released"})

(* stream_impl.h:45-48: runtime drops and failed initial connects are both *)
(* retried without any external driver.                                    *)
DropIsRetried ==
    (user = "idle" /\ state = "kStreaming" /\ link = "failed")
        ~> (worker = "connecting" \/ user # "idle" \/ stopped)

(* specs/008-stream-interface/spec.md:39: Stop() on a started stream       *)
(* terminates it.                                                          *)
StopEndsStream == stopped => link = "none" /\ WorkerJoined
=============================================================================
