----------------------------- MODULE PacketQueue -----------------------------
(***************************************************************************)
(* PacketQueue of codec/src/framework/queue/packet_queue.{h,cc} with the   *)
(* threads around it: encoder threads that Push, the consumer thread that  *)
(* runs Await into a sink, and the caller that marks the end of stream.    *)
(*                                                                         *)
(* Granularity.  Push, Pop and MarkEos of one ring hold that ring's mu_    *)
(* from entry to return, so each is one step, except Push under kBlock on  *)
(* a full ring: not_full_.wait gives mu_ up, and the call resumes in a     *)
(* later step.  PacketQueue::MarkEos closes the two rings in two steps.    *)
(* Pop's own wait has a deadline, so what it does is one step when it      *)
(* returns: a packet, end of stream, or kEmpty.                            *)
(***************************************************************************)
EXTENDS PacketRing

CONSTANTS
    Producers,        \* the encoder threads
    Setups,           \* [policy, feeds]: policy_ ("kBlock", "kLatest" or
                      \*   "kError"), and the media each thread encodes
    MaxPackets,       \* Push calls the encoders make for each media
    SinkMayFail,      \* the sink's Push or Finish may return an error
    JoinBeforeEos     \* the caller marks EOS only when the encoders are done

Media == {"video", "audio"}

(* Single producer per ring: the SPSC pairing the class assumes. *)
ASSUME QueueAssumption ==
    /\ Setups \subseteq [policy : {"kBlock", "kLatest", "kError"},
                         feeds : [Producers -> SUBSET Media]]
    /\ \A s \in Setups : \A p, q \in Producers :
           p # q => s.feeds[p] \cap s.feeds[q] = {}
    /\ MaxPackets \in Nat
    /\ SinkMayFail \in BOOLEAN
    /\ JoinBeforeEos \in BOOLEAN

VARIABLES
    setup,       \* what the program was configured with; it never changes
    ring,        \* video_ and audio_
    producer,    \* [pc, media]: what each encoder thread does, and in which ring
    marking,     \* the media whose ring MarkEos closes next, or "done"
    drain,       \* [pc, media, done, result]: Await's locals and where it is
    offered,     \* history: Push calls begun, per media
    accepted,    \* history: packets accepted, per media
    pulled,      \* history: the last packet Pop returned, per media
    delivered,   \* history: the last packet sink.Push took, per media
    finished     \* history: sink.Finish calls

vars == <<setup, ring, producer, marking, drain, offered, accepted, pulled,
          delivered, finished>>

Policy == setup.policy
Feeds == setup.feeds
Lossy == Policy = "kLatest"

Init ==
    /\ setup \in Setups
    /\ ring = [m \in Media |-> EmptyRing]
    /\ producer = [p \in Producers |-> [pc |-> "encoding", media |-> "video"]]
    /\ marking = "video"
    /\ drain = [pc |-> "pull", media |-> "video", done |-> {}, result |-> "none"]
    /\ offered = [m \in Media |-> 0]
    /\ accepted = [m \in Media |-> 0]
    /\ pulled = [m \in Media |-> 0]
    /\ delivered = [m \in Media |-> 0]
    /\ finished = 0

-----------------------------------------------------------------------------
(* The encoder threads.                                                    *)

Resume(p) == producer' = [producer EXCEPT ![p].pc = "encoding"]

Accept(m) ==
    /\ ring' = [ring EXCEPT ![m] = Stored(@, accepted[m] + 1)]
    /\ accepted' = [accepted EXCEPT ![m] = @ + 1]

(* Push returns false; PacketQueue::Push turns that into a Status.         *)
Reject == UNCHANGED <<ring, accepted>>

BeginPush(p, m) ==
    /\ producer[p].pc = "encoding"
    /\ m \in Feeds[p]
    /\ offered[m] < MaxPackets
    /\ offered' = [offered EXCEPT ![m] = @ + 1]
    /\ UNCHANGED <<marking, drain, pulled, delivered, finished>>

(* Plausible bugs of Push, each checked to break a property of the run:    *)
(* end of stream not looked at; kLatest keeping the oldest packet; kError  *)
(* making room before it rejects.                                          *)
PushIgnoresEos(p, m) ==
    /\ BeginPush(p, m)
    /\ ~Full(ring[m])
    /\ Accept(m)
    /\ UNCHANGED producer

PushOverKept(p, m) ==
    /\ BeginPush(p, m)
    /\ ~ring[m].eos /\ Full(ring[m]) /\ Lossy
    /\ Accept(m)
    /\ UNCHANGED producer

PushRejectedEvicts(p, m) ==
    /\ BeginPush(p, m)
    /\ ~ring[m].eos /\ Full(ring[m]) /\ Policy = "kError"
    /\ ring' = [ring EXCEPT ![m] = Vacated(@)]
    /\ UNCHANGED <<producer, accepted>>

(* Push on a ring with room. *)
PushStores(p, m) ==
    /\ BeginPush(p, m)
    /\ ~ring[m].eos /\ ~Full(ring[m])
    /\ Accept(m)
    /\ UNCHANGED producer

(* Push after end of stream, or on a full ring under kError. *)
PushRejected(p, m) ==
    /\ BeginPush(p, m)
    /\ ring[m].eos \/ (Full(ring[m]) /\ Policy = "kError")
    /\ Reject
    /\ UNCHANGED producer

(* kLatest: the oldest unconsumed packet makes room. *)
PushOverOldest(p, m) ==
    /\ BeginPush(p, m)
    /\ ~ring[m].eos /\ Full(ring[m])
    /\ Lossy
    /\ ring' = [ring EXCEPT ![m] = Stored(Vacated(@), accepted[m] + 1)]
    /\ accepted' = [accepted EXCEPT ![m] = @ + 1]
    /\ UNCHANGED producer

(* kBlock: the call gives mu_ up and waits on not_full_. *)
PushWaits(p, m) ==
    /\ BeginPush(p, m)
    /\ ~ring[m].eos /\ Full(ring[m])
    /\ Policy = "kBlock"
    /\ producer' = [producer EXCEPT ![p] = [pc |-> "waiting", media |-> m]]
    /\ UNCHANGED <<ring, accepted>>

(* A condition variable may also return from its wait unasked. *)
SpuriousWake(p) ==
    /\ producer[p].pc = "waiting"
    /\ producer' = [producer EXCEPT ![p].pc = "woken"]
    /\ UNCHANGED <<ring, marking, drain, offered, accepted, pulled,
                   delivered, finished>>

(* A woken Push has mu_ again and looks at the wait's predicate. *)
PushResumes(p) ==
    LET m == producer[p].media IN
    /\ producer[p].pc = "woken"
    /\ \/ /\ ring[m].eos
          /\ Reject
          /\ Resume(p)
       \/ /\ ~ring[m].eos /\ ~Full(ring[m])
          /\ Accept(m)
          /\ Resume(p)
       \/ /\ ~ring[m].eos /\ Full(ring[m])
          /\ producer' = [producer EXCEPT ![p].pc = "waiting"]
          /\ UNCHANGED <<ring, accepted>>
    /\ UNCHANGED <<marking, drain, offered, pulled, delivered, finished>>

(* The encode loop ends: its last frame, or an error it breaks on. *)
StopEncoding(p) ==
    /\ producer[p].pc = "encoding"
    /\ producer' = [producer EXCEPT ![p].pc = "stopped"]
    /\ UNCHANGED <<ring, marking, drain, offered, accepted, pulled,
                   delivered, finished>>

(* Plausible bug: Pop does not notify. *)
NotifyNobody(m) == UNCHANGED producer

(* not_full_.notify_one: the ring's producer is the only one that waits. *)
NotifyNotFull(m) ==
    producer' = [p \in Producers |->
        IF producer[p] = [pc |-> "waiting", media |-> m]
        THEN [producer[p] EXCEPT !.pc = "woken"] ELSE producer[p]]

-----------------------------------------------------------------------------
(* PacketQueue::MarkEos, by the caller: the video ring, then the audio     *)
(* ring.  Ring::MarkEos notifies not_empty_ alone, so no waiting Push is   *)
(* woken by it.                                                            *)
EncodersDone == \A p \in Producers : producer[p].pc = "stopped"

MarkEos ==
    /\ marking # "done"
    /\ JoinBeforeEos => EncodersDone
    /\ ring' = [ring EXCEPT ![marking] = Closed(@)]
    /\ marking' = IF marking = "video" THEN "audio" ELSE "done"
    /\ UNCHANGED <<producer, drain, offered, accepted, pulled,
                   delivered, finished>>

-----------------------------------------------------------------------------
(* Await, on the consumer thread.  DrainOne is a no-op on a media that is  *)
(* done, so the loop goes to the other media, or out when both are.        *)

Other(m) == IF m = "video" THEN "audio" ELSE "video"

(* Plausible bugs of the loop: out when either media is done, and one      *)
(* media drained to its end before the other.                              *)
AfterEitherDone(done) ==
    IF done # {}
    THEN [drain EXCEPT !.pc = "finish", !.done = done]
    ELSE [drain EXCEPT !.pc = "pull", !.done = done, !.media = Other(@)]

OneMediaAtATime(done) ==
    IF done = Media
    THEN [drain EXCEPT !.pc = "finish", !.done = done]
    ELSE [drain EXCEPT !.pc = "pull", !.done = done,
              !.media = IF @ \in done THEN Other(@) ELSE @]

AfterDrainOne(done) ==
    IF done = Media
    THEN [drain EXCEPT !.pc = "finish", !.done = done]
    ELSE [drain EXCEPT !.pc = "pull", !.done = done,
              !.media = IF Other(@) \notin done THEN Other(@) ELSE @]

PullPacket ==
    LET m == drain.media IN
    /\ drain.pc = "pull"
    /\ ring[m].count > 0
    /\ pulled' = [pulled EXCEPT ![m] = Oldest(ring[m])]
    /\ ring' = [ring EXCEPT ![m] = Vacated(@)]
    /\ NotifyNotFull(m)
    /\ drain' = [drain EXCEPT !.pc = "deliver"]
    /\ UNCHANGED <<marking, offered, accepted, delivered, finished>>

(* The deadline passed with nothing to pop: on to the other media. *)
PullEmpty ==
    /\ drain.pc = "pull"
    /\ ring[drain.media].count = 0
    /\ ~ring[drain.media].eos
    /\ drain' = AfterDrainOne(drain.done)
    /\ UNCHANGED <<ring, producer, marking, offered, accepted,
                   pulled, delivered, finished>>

PullEos ==
    /\ drain.pc = "pull"
    /\ ring[drain.media].count = 0
    /\ ring[drain.media].eos
    /\ drain' = AfterDrainOne(drain.done \cup {drain.media})
    /\ UNCHANGED <<ring, producer, marking, offered, accepted,
                   pulled, delivered, finished>>

SinkTakes ==
    /\ drain.pc = "deliver"
    /\ delivered' = [delivered EXCEPT ![drain.media] = pulled[drain.media]]
    /\ drain' = AfterDrainOne(drain.done)
    /\ UNCHANGED <<ring, producer, marking, offered, accepted,
                   pulled, finished>>

(* sink.Push fails: Finish the sink and give up, with the queue as it is. *)
SinkRefuses ==
    /\ SinkMayFail
    /\ drain.pc = "deliver"
    /\ finished' = finished + 1
    /\ drain' = [drain EXCEPT !.pc = "returned", !.result = "kEncodeFailed"]
    /\ UNCHANGED <<ring, producer, marking, offered, accepted,
                   pulled, delivered>>

(* Both media done: Await returns what Finish does. *)
FinishSink ==
    /\ drain.pc = "finish"
    /\ finished' = finished + 1
    /\ \E st \in {"kOk"} \cup (IF SinkMayFail THEN {"kEncodeFailed"} ELSE {}) :
           drain' = [drain EXCEPT !.pc = "returned", !.result = st]
    /\ UNCHANGED <<ring, producer, marking, offered, accepted,
                   pulled, delivered>>

-----------------------------------------------------------------------------
Push(p) ==
    \/ \E m \in Media : \/ PushStores(p, m) \/ PushRejected(p, m)
                        \/ PushOverOldest(p, m) \/ PushWaits(p, m)
    \/ PushResumes(p)

Encoder(p) == Push(p) \/ StopEncoding(p)

Await ==
    \/ PullPacket \/ PullEmpty \/ PullEos
    \/ SinkTakes \/ SinkRefuses \/ FinishSink

(* Every call has returned; the program goes on to join its threads. *)
AllReturned ==
    /\ EncodersDone
    /\ marking = "done"
    /\ drain.pc = "returned"

Terminated ==
    /\ AllReturned
    /\ UNCHANGED <<ring, producer, marking, drain, offered, accepted, pulled,
                   delivered, finished>>

Step ==
    \/ \E p \in Producers : Encoder(p) \/ SpuriousWake(p)
    \/ MarkEos
    \/ Await
    \/ Terminated

Next == UNCHANGED setup /\ Step

(* Threads that can run do run; nothing is owed by a spurious wakeup, and  *)
(* the caller owes an end of stream only once the encoders are done.       *)
Fairness ==
    /\ \A p \in Producers : WF_vars(UNCHANGED setup /\ Encoder(p))
    /\ WF_vars(UNCHANGED setup /\ EncodersDone /\ MarkEos)
    /\ WF_vars(UNCHANGED setup /\ Await)

Spec == Init /\ [][Next]_vars /\ Fairness
-----------------------------------------------------------------------------
(* Properties.                                                             *)

(* Every variable has its type. *)
TypeOK ==
    /\ setup \in Setups
    /\ ring \in [Media -> Rings]
    /\ producer \in [Producers -> [pc : {"encoding", "waiting", "woken", "stopped"},
                                   media : Media]]
    /\ marking \in Media \cup {"done"}
    /\ drain \in [pc : {"pull", "deliver", "finish", "returned"}, media : Media,
                  done : SUBSET Media, result : {"none", "kOk", "kEncodeFailed"}]
    /\ offered \in [Media -> 0..MaxPackets]
    /\ accepted \in [Media -> Nat]
    /\ pulled \in [Media -> Nat]
    /\ delivered \in [Media -> Nat]
    /\ finished \in 0..1

(* The count_ slots from head_ on hold the newest count_ packets accepted, *)
(* oldest first, and tail_ is the slot after them: head_, tail_ and count_ *)
(* never disagree, however pushes, pops and overwrites wrap around.        *)
RingHoldsNewest == \A m \in Media : Holds(ring[m], accepted[m])

(* No packet is lost on the way unless the policy is kLatest: all that was *)
(* accepted was pulled or is still in the ring, and all that was pulled    *)
(* went to the sink, but for the one packet Await holds or the sink        *)
(* refused (output-queue-contract.md, Acceptance).                         *)
InHand(m) ==
    /\ drain.media = m
    /\ drain.pc = "deliver" \/ drain.result = "kEncodeFailed"

NothingLost ==
    \A m \in Media :
        /\ ~Lossy => pulled[m] + ring[m].count = accepted[m]
        /\ pulled[m] # delivered[m] => InHand(m)

(* When Await returns kOk it has finished the sink, once, and the sink has *)
(* every packet up to the last one accepted by either ring: no Push slips  *)
(* in between the last pull and the end of stream.                         *)
AwaitOkMeansDrained ==
    /\ finished = (IF drain.pc = "returned" THEN 1 ELSE 0)
    /\ drain.result = "kOk" =>
           \A m \in Media : ring[m].eos /\ delivered[m] = accepted[m]

(* A Push sleeps on not_full_ only while its ring is full: no pop leaves a *)
(* producer asleep beside a free slot (a lost wakeup).                     *)
NoLostWakeup ==
    \A p \in Producers :
        producer[p].pc = "waiting" => Full(ring[producer[p].media])

(* The strengthening that makes the invariants above inductive: a ring     *)
(* with nothing in it has nothing left to pull, and Await's locals agree   *)
(* with the rings it has seen the end of.                                  *)
EmptyMeansPulled ==
    \A m \in Media :
        /\ pulled[m] + ring[m].count <= accepted[m]
        /\ ring[m].count = 0 => pulled[m] = accepted[m]

AwaitIsConsistent ==
    /\ drain.pc = "returned" <=> drain.result # "none"
    /\ drain.pc \in {"pull", "deliver"} => drain.media \notin drain.done
    /\ drain.pc = "finish" \/ drain.result = "kOk" => drain.done = Media
    /\ \A m \in drain.done :
           ring[m].eos /\ ring[m].count = 0 /\ pulled[m] = delivered[m]

QueueInv ==
    /\ TypeOK /\ RingHoldsNewest /\ NothingLost /\ AwaitOkMeansDrained
    /\ NoLostWakeup /\ EmptyMeansPulled /\ AwaitIsConsistent

(* Each ring implements the abstract queue of MediaFifo: what Pop hands    *)
(* out is the oldest packet, whatever slot it sits in.                     *)
Fifo(m) == INSTANCE MediaFifo WITH
    oldest <- accepted[m] - ring[m].count, newest <- accepted[m],
    taken <- pulled[m], closed <- ring[m].eos, lossy <- Lossy

QueueIsFifo ==
    /\ \A m \in Media : Fifo(m)!Init
    /\ [][\A m \in Media : [Fifo(m)!Next]_(Fifo(m)!vars)]_vars

(* Encoders, caller and Await all return, unless the sink has failed: no   *)
(* Push, Pull or join waits forever (end-to-end back-pressure slows the    *)
(* encoder, never stops it).                                               *)
PipelineTerminates == <>(AllReturned \/ drain.result = "kEncodeFailed")

(* packet_queue.cc:32-33: end of stream ends the wait of a blocked Push.   *)
EosReleasesBlockedPush ==
    \A p \in Producers :
        (producer[p].pc = "waiting" /\ ring[producer[p].media].eos)
            ~> producer[p].pc # "waiting"
=============================================================================
