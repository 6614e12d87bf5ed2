------------------------------ MODULE StreamSend ------------------------------
(***************************************************************************)
(* StreamImpl while packets are sent (stream/src/core/stream_impl.cc):     *)
(* SendVideo and SendAudio on the thread that runs Await, against the      *)
(* reports of the transport's threads, which replace status_, and against  *)
(* the thread that connects, the caller in Start or the reconnect worker,  *)
(* which resets the bitrate controller without status_mtx_.                *)
(*                                                                         *)
(* The lifecycle is StreamCore's: here the stream is initialised, never    *)
(* stopped, and the worker may retry at any time.  The counters and        *)
(* last_error of status_, which nothing in the program reads, are left     *)
(* out; so are the calls that only touch them: an audio packet dropped     *)
(* under backpressure or refused because the stream is not streaming.      *)
(***************************************************************************)
EXTENDS AbrController

CONSTANT MaxPackets     \* kBackpressureMaxPackets

ASSUME BackpressureAssumption == MaxPackets \in Nat \ {0}

VARIABLES
    state,          \* status_.state
    bitrate,        \* status_.bitrate_kbps
    backpressure,   \* backpressure_buffer_count_, which counts on above
                    \* MaxPackets in the code, where nothing tells it apart
    gate,           \* the backend takes packets
    loss,           \* the loss it measures
    sender,         \* [pc, media, sent, seen]: the sending thread; seen is
                    \* the rate, good and loss its Update has read
    connector       \* where Start or AttemptReconnect is

statusVars == <<state, bitrate>>
vars == <<abrVars, statusVars, backpressure, gate, loss, sender, connector>>

States == {"kConfigured", "kConnecting", "kStreaming", "kReconnecting",
           "kDisconnected", "kIceConnected"}

Reported == {"kConnecting", "kStreaming", "kDisconnected", "kIceConnected"}

Read(r, g, l) == [rate |-> r, good |-> g, loss |-> l]

Idle == [pc |-> "idle", media |-> "video", sent |-> FALSE,
         seen |-> Read(MinRate, 0, "low")]

Init ==
    /\ AbrNew
    /\ state = "kConfigured" /\ bitrate = 0 /\ backpressure = 0
    /\ gate = FALSE /\ loss \in Losses
    /\ sender = Idle
    /\ connector = "idle"

(* The sender holds status_mtx_ from its count to the end of its Update. *)
Locked == sender.pc \in {"storeRate", "storeGood"}

UpdateStatus(s) == ~Locked /\ state' = s /\ UNCHANGED bitrate

-----------------------------------------------------------------------------
(* SendVideo and SendAudio.                                                *)

SenderOnly == UNCHANGED <<state, gate, loss, connector>>

SendVideo ==
    /\ sender.pc = "idle"
    /\ sender' = [sender EXCEPT !.pc = "backend", !.media = "video"]
    /\ UNCHANGED <<abrVars, bitrate, backpressure>> /\ SenderOnly

SendAudio ==
    /\ sender.pc = "idle"
    /\ state = "kStreaming" /\ backpressure < MaxPackets
    /\ sender' = [sender EXCEPT !.pc = "backend", !.media = "audio"]
    /\ UNCHANGED <<abrVars, bitrate, backpressure>> /\ SenderOnly

(* No mutex is held across the backend's call.  The WebRTC backend refuses *)
(* all audio, the mock takes it.                                           *)
BackendAnswers ==
    /\ sender.pc = "backend"
    /\ \E sent \in BOOLEAN :
           /\ IF sender.media = "video" THEN sent = gate ELSE sent => gate
           /\ sender' = [sender EXCEPT !.pc = "count", !.sent = sent]
    /\ UNCHANGED <<abrVars, bitrate, backpressure>> /\ SenderOnly

(* Plausible bug: a success only takes one failure back. *)
CountedDown ==
    IF sender.sent THEN AtLeast(backpressure - 1, 0)
                   ELSE AtMost(backpressure + 1, MaxPackets)

Counted == IF sender.sent THEN 0 ELSE AtMost(backpressure + 1, MaxPackets)

(* Under status_mtx_.  The state may have changed since the call's check.  *)
Count ==
    /\ sender.pc = "count"
    /\ backpressure' = Counted
    /\ sender' = IF sender.media = "video" /\ state = "kStreaming"
                 THEN [sender EXCEPT !.pc = "storeRate",
                           !.seen = Read(rate, good, loss)]
                 ELSE Idle
    /\ UNCHANGED <<abrVars, bitrate>> /\ SenderOnly

StoreRate ==
    LET seen == sender.seen IN
    /\ sender.pc = "storeRate"
    /\ rate' = IF seen.loss = "low" /\ ~Fifth(seen.good) THEN rate
               ELSE UpdatedRate(seen.rate, seen.good, seen.loss)
    /\ sender' = [sender EXCEPT !.pc = "storeGood"]
    /\ UNCHANGED <<good, bitrate, backpressure>> /\ SenderOnly

StoreGood ==
    /\ sender.pc = "storeGood"
    /\ good' = UpdatedGood(sender.seen.good, sender.seen.loss)
    /\ bitrate' = rate
    /\ sender' = Idle
    /\ UNCHANGED <<rate, backpressure>> /\ SenderOnly

Returns == BackendAnswers \/ Count \/ StoreRate \/ StoreGood

-----------------------------------------------------------------------------
(* Start and AttemptReconnect.                                             *)

ConnectorOnly == UNCHANGED <<backpressure, loss, sender>>

StartConnects ==
    /\ connector = "idle" /\ state = "kConfigured"
    /\ UpdateStatus("kConnecting")
    /\ connector' = "start"
    /\ UNCHANGED <<abrVars, gate>> /\ ConnectorOnly

(* Connect tears the last session down first. *)
WorkerConnects ==
    /\ connector = "idle" /\ state # "kConfigured"
    /\ connector' = "retry"
    /\ gate' = FALSE
    /\ UNCHANGED <<abrVars, statusVars>> /\ ConnectorOnly

ConnectFails ==
    /\ \/ connector = "start" /\ UpdateStatus("kReconnecting")
       \/ connector = "retry" /\ UNCHANGED statusVars
    /\ connector' = "idle"
    /\ UNCHANGED <<abrVars, gate>> /\ ConnectorOnly

ConnectSucceeds ==
    /\ connector \in {"start", "retry"}
    /\ gate' = TRUE
    /\ connector' = "resetRate"
    /\ UNCHANGED <<abrVars, statusVars>> /\ ConnectorOnly

(* AbrController::Reset: two stores without the mutex. *)
ResetStoresRate ==
    /\ connector = "resetRate"
    /\ rate' = MaxRate
    /\ connector' = "resetGood"
    /\ UNCHANGED <<good, statusVars, gate>> /\ ConnectorOnly

ResetStoresGood ==
    /\ connector = "resetGood"
    /\ good' = 0
    /\ connector' = "report"
    /\ UNCHANGED <<rate, statusVars, gate>> /\ ConnectorOnly

ConnectReports ==
    /\ connector = "report"
    /\ UpdateStatus("kStreaming")
    /\ connector' = "idle"
    /\ UNCHANGED <<abrVars, gate>> /\ ConnectorOnly

Connects ==
    \/ StartConnects \/ WorkerConnects \/ ConnectFails \/ ConnectSucceeds
    \/ ResetStoresRate \/ ResetStoresGood \/ ConnectReports

-----------------------------------------------------------------------------
(* The transport.                                                          *)

(* OnBackendStatusChange: the report, whose bitrate is 0, replaces status_. *)
BackendReports ==
    /\ ~Locked /\ state # "kConfigured"
    /\ \E s \in Reported :
           state' = IF s = "kDisconnected" /\ state \in {"kStreaming", "kReconnecting"}
                    THEN "kReconnecting" ELSE s
    /\ bitrate' = 0
    /\ UNCHANGED <<abrVars, backpressure, gate, loss, sender, connector>>

LinkFails ==
    /\ gate /\ gate' = FALSE
    /\ UNCHANGED <<abrVars, statusVars, backpressure, loss, sender, connector>>

LossChanges ==
    /\ loss' \in Losses
    /\ UNCHANGED <<abrVars, statusVars, backpressure, gate, sender, connector>>

Next ==
    \/ SendVideo \/ SendAudio \/ Returns
    \/ Connects \/ BackendReports \/ LinkFails \/ LossChanges

(* Calls return, and the encoder goes on giving video: Await takes the two *)
(* media in turn, so the audio cannot keep the video out.                  *)
Spec == Init /\ [][Next]_vars /\ WF_vars(Returns) /\ SF_vars(SendVideo)
-----------------------------------------------------------------------------
(* Every variable has its type. *)
TypeOK ==
    /\ rate \in 0..(Word - 1) /\ good \in 0..4
    /\ state \in States
    /\ bitrate \in 0..(Word - 1)
    /\ backpressure \in 0..MaxPackets
    /\ gate \in BOOLEAN
    /\ loss \in Losses
    /\ sender \in [pc : {"idle", "backend", "count", "storeRate", "storeGood"},
                   media : {"video", "audio"}, sent : BOOLEAN,
                   seen : [rate : 0..(Word - 1), good : 0..4, loss : Losses]]
    /\ connector \in {"idle", "start", "retry", "resetRate", "resetGood", "report"}

(* Whatever the losses, and although Reset races Update, the rate stays    *)
(* between the floor and the cap (data-model.md:60-61 of                   *)
(* specs/008-stream-interface), and so does the rate reported.             *)
RateWithinBounds ==
    /\ MinRate <= rate /\ rate <= MaxRate
    /\ bitrate # 0 => MinRate <= bitrate /\ bitrate <= MaxRate

(* An Update at a loss never raises the rate, and one without never lowers *)
(* it, unless it overwrites a Reset it has not seen: no subtraction or     *)
(* addition wraps, and the race does no other harm.                        *)
LossNeverRaises ==
    [][StoreRate => IF sender.seen.loss # "low" THEN rate' <= rate
                    ELSE rate' >= rate \/ rate = MaxRate]_vars

(* A connected stream on a network that stays good ends at the cap, and on *)
(* one that stays bad at the floor, and tells so: no rate in between is a  *)
(* fixed point, and no report hides the rate for good.                     *)
Steady(l) == <>[](connector = "idle" /\ state = "kStreaming" /\ loss = l)

SettlesAtTheBound ==
    /\ Steady("low")  => <>[](rate = MaxRate) /\ []<>(bitrate = MaxRate)
    /\ Steady("high") => <>[](rate = MinRate) /\ []<>(bitrate = MinRate)

(* Backpressure is not for ever: once the backend takes video again the    *)
(* count of failures is cleared, and audio passes.                         *)
AudioComesBack == <>[]gate => []<>(backpressure = 0)
=============================================================================
