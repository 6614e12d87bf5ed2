------------------------- MODULE PacketQueue_proofs -------------------------
(***************************************************************************)
(* Proofs about PacketQueue, for every capacity, policy, set of encoder    *)
(* threads and number of packets.                                          *)
(*                                                                         *)
(* Every step moves each ring in one of five ways (RingMove): not at all,  *)
(* by a store, by an overwrite of the oldest packet, by a pop, or by the   *)
(* end of stream.  What a ring holds, and that it is a FIFO queue, follows *)
(* from the move alone; the invariants that relate a ring to the threads   *)
(* are taken action by action.                                             *)
(***************************************************************************)
EXTENDS PacketQueue, PacketRing_proofs

Idles(m) ==
    /\ ring'[m] = ring[m] /\ accepted'[m] = accepted[m] /\ pulled'[m] = pulled[m]

Stores(m) ==
    /\ ~ring[m].eos /\ ~Full(ring[m])
    /\ ring'[m] = Stored(ring[m], accepted[m] + 1)
    /\ accepted'[m] = accepted[m] + 1 /\ pulled'[m] = pulled[m]

Overwrites(m) ==
    /\ Lossy /\ ~ring[m].eos /\ Full(ring[m])
    /\ ring'[m] = Stored(Vacated(ring[m]), accepted[m] + 1)
    /\ accepted'[m] = accepted[m] + 1 /\ pulled'[m] = pulled[m]

Pops(m) ==
    /\ ring[m].count > 0
    /\ ring'[m] = Vacated(ring[m])
    /\ accepted'[m] = accepted[m] /\ pulled'[m] = Oldest(ring[m])

Closes(m) ==
    /\ ring'[m] = Closed(ring[m])
    /\ accepted'[m] = accepted[m] /\ pulled'[m] = pulled[m]

RingMove(m) == Idles(m) \/ Stores(m) \/ Overwrites(m) \/ Pops(m) \/ Closes(m)

(* Marking the end of stream changes nothing else of a ring. *)
LEMMA ClosedFields ==
    ASSUME NEW r \in Rings
    PROVE  /\ Closed(r) \in Rings
           /\ Closed(r).slots = r.slots /\ Closed(r).head = r.head
           /\ Closed(r).tail = r.tail /\ Closed(r).count = r.count
           /\ Closed(r).eos
  BY DEF Rings, Closed

(* Every step of the system moves each ring in one of the five ways. *)
LEMMA StepMovesRings ==
    ASSUME TypeOK, [Next]_vars, NEW m \in Media
    PROVE  RingMove(m)
  <1>0. /\ ring \in [Media -> Rings] /\ accepted \in [Media -> Nat]
        /\ pulled \in [Media -> Nat]
        /\ \A p \in Producers : producer[p].media \in Media
        /\ marking # "done" => marking \in Media
        /\ drain.media \in Media
    BY DEF TypeOK
  <1>1. ASSUME NEW p \in Producers, NEW k \in Media, PushStores(p, k)
        PROVE  RingMove(m)
    BY <1>0, <1>1 DEF PushStores, BeginPush, Accept, RingMove, Idles, Stores
  <1>2. ASSUME NEW p \in Producers, NEW k \in Media, PushRejected(p, k)
        PROVE  RingMove(m)
    BY <1>2 DEF PushRejected, BeginPush, Reject, RingMove, Idles
  <1>3. ASSUME NEW p \in Producers, NEW k \in Media, PushOverOldest(p, k)
        PROVE  RingMove(m)
    BY <1>0, <1>3 DEF PushOverOldest, BeginPush, RingMove, Idles, Overwrites
  <1>4. ASSUME NEW p \in Producers, NEW k \in Media, PushWaits(p, k)
        PROVE  RingMove(m)
    BY <1>4 DEF PushWaits, BeginPush, RingMove, Idles
  <1>5. ASSUME NEW p \in Producers, PushResumes(p)
        PROVE  RingMove(m)
    BY <1>0, <1>5 DEF PushResumes, Accept, Reject, RingMove, Idles, Stores
  <1>6. ASSUME NEW p \in Producers, StopEncoding(p) \/ SpuriousWake(p)
        PROVE  RingMove(m)
    BY <1>6 DEF StopEncoding, SpuriousWake, RingMove, Idles
  <1>7. CASE MarkEos
    BY <1>0, <1>7 DEF MarkEos, RingMove, Idles, Closes
  <1>8. CASE PullPacket
    BY <1>0, <1>8 DEF PullPacket, RingMove, Idles, Pops
  <1>9. CASE PullEmpty \/ PullEos \/ SinkTakes \/ SinkRefuses \/ FinishSink
    BY <1>9 DEF PullEmpty, PullEos, SinkTakes, SinkRefuses, FinishSink,
                RingMove, Idles
  <1>10. CASE Terminated \/ UNCHANGED vars
    BY <1>10 DEF Terminated, vars, RingMove, Idles
  <1> QED
    BY <1>1, <1>2, <1>3, <1>4, <1>5, <1>6, <1>7, <1>8, <1>9, <1>10
       DEF Next, Step, Encoder, Push, Await

(* The setup is fixed, and with it the policy. *)
LEMMA SetupKept ==
    ASSUME [Next]_vars
    PROVE  setup' = setup /\ Lossy' = Lossy
  BY DEF Next, vars, Lossy, Policy

(* What each move does to a ring and to the numbers that describe it. *)
RingOK(m) ==
    /\ ring[m] \in Rings /\ accepted[m] \in Nat
    /\ Holds(ring[m], accepted[m])

(* A packet stored in a ring with room: it is the newest one, and the ring *)
(* holds one more (Ring::Push, lines 36-38).                               *)
LEMMA StoreOfRing ==
    ASSUME NEW m \in Media, RingOK(m), Stores(m)
    PROVE  /\ RingOK(m)'
           /\ ring'[m].count = ring[m].count + 1 /\ ring'[m].eos = ring[m].eos
  <1> DEFINE r == ring[m]  n == accepted[m]
  <1>1. r \in Rings /\ n \in Nat /\ Holds(r, n) /\ ~Full(r)
    BY DEF RingOK, Stores
  <1>2. n + 1 \in Nat
    BY <1>1
  <1>3. /\ Stored(r, n + 1) \in Rings /\ Holds(Stored(r, n + 1), n + 1)
        /\ Stored(r, n + 1).count = r.count + 1 /\ Stored(r, n + 1).eos = r.eos
    BY <1>1, <1>2, StoredFields, StoredHolds
  <1> QED
    BY <1>2, <1>3 DEF RingOK, Stores

(* Pop hands out the oldest packet the ring holds.                         *)
LEMMA PopOfRing ==
    ASSUME NEW m \in Media, RingOK(m), Pops(m)
    PROVE  /\ RingOK(m)'
           /\ ring'[m].count = ring[m].count - 1 /\ ring'[m].eos = ring[m].eos
           /\ pulled'[m] = accepted[m] - ring[m].count + 1
  <1> DEFINE r == ring[m]  n == accepted[m]
  <1>1. r \in Rings /\ n \in Nat /\ Holds(r, n) /\ r.count > 0
    BY DEF RingOK, Pops
  <1>2. /\ Vacated(r) \in Rings /\ Holds(Vacated(r), n)
        /\ Vacated(r).count = r.count - 1 /\ Vacated(r).eos = r.eos
        /\ Oldest(r) = n - r.count + 1
    BY <1>1, VacatedFields, VacatedHolds
  <1> QED
    BY <1>1, <1>2 DEF RingOK, Pops

(* kLatest on a full ring: the oldest packet goes, and the count stays.    *)
LEMMA OverwriteOfRing ==
    ASSUME NEW m \in Media, RingOK(m), Overwrites(m)
    PROVE  /\ RingOK(m)'
           /\ ring'[m].count = ring[m].count /\ ring'[m].eos = ring[m].eos
  <1> DEFINE r == ring[m]  n == accepted[m]  v == Vacated(r)
  <1>1. r \in Rings /\ n \in Nat /\ n + 1 \in Nat /\ Holds(r, n)
    BY DEF RingOK
  <1>2. r.count = Capacity /\ r.count \in Nat /\ r.count > 0
    BY <1>1, CapacityPositive DEF Overwrites, Full, Rings
  <1>3. /\ v \in Rings /\ Holds(v, n)
        /\ v.count = r.count - 1 /\ v.eos = r.eos
    BY <1>1, <1>2, VacatedFields, VacatedHolds
  <1>4. ~Full(v)
    BY <1>2, <1>3 DEF Full
  <1> HIDE DEF v
  <1>5. /\ Stored(v, n + 1) \in Rings /\ Holds(Stored(v, n + 1), n + 1)
        /\ Stored(v, n + 1).count = v.count + 1 /\ Stored(v, n + 1).eos = v.eos
    BY <1>1, <1>3, <1>4, StoredFields, StoredHolds
  <1> QED
    BY <1>1, <1>2, <1>3, <1>5 DEF RingOK, Overwrites, v

(* MarkEos leaves what the ring holds as it is.                            *)
LEMMA CloseOfRing ==
    ASSUME NEW m \in Media, RingOK(m), Closes(m)
    PROVE  RingOK(m)' /\ ring'[m].count = ring[m].count /\ ring'[m].eos
  <1>1. /\ Closed(ring[m]) \in Rings
        /\ Holds(Closed(ring[m]), accepted[m])
        /\ Closed(ring[m]).count = ring[m].count /\ Closed(ring[m]).eos
    BY ClosedFields DEF RingOK, Holds
  <1> QED
    BY <1>1 DEF RingOK, Closes

(* Whatever the move, the ring keeps its type and holds the newest packets, *)
(* once it ends it stays ended and takes no packet, and what was pulled is  *)
(* never ahead of what the ring has given up.                               *)
LEMMA MoveOfRing ==
    ASSUME NEW m \in Media, RingOK(m), RingMove(m), pulled[m] \in Nat,
           pulled[m] + ring[m].count <= accepted[m],
           ring[m].count = 0 => pulled[m] = accepted[m],
           ~Lossy => pulled[m] + ring[m].count = accepted[m]
    PROVE  /\ RingOK(m)' /\ pulled'[m] \in Nat
           /\ pulled'[m] + ring'[m].count <= accepted'[m]
           /\ ring'[m].count = 0 => pulled'[m] = accepted'[m]
           /\ ~Lossy => pulled'[m] + ring'[m].count = accepted'[m]
           /\ ring[m].eos => ring'[m].eos /\ accepted'[m] = accepted[m]
           /\ ring[m].eos /\ ring[m].count = 0 =>
                  ring'[m].count = 0 /\ pulled'[m] = pulled[m]
  <1>1. /\ ring[m].count \in Nat /\ accepted[m] \in Nat /\ Capacity \in Nat \ {0}
        /\ Full(ring[m]) => ring[m].count = Capacity
    BY CapacityPositive DEF RingOK, Rings, Full
  <1>2. CASE Idles(m)
    BY <1>1, <1>2 DEF Idles, RingOK
  <1>3. CASE Stores(m)
    BY <1>1, <1>3, StoreOfRing DEF Stores
  <1>4. CASE Overwrites(m)
    BY <1>1, <1>4, OverwriteOfRing DEF Overwrites
  <1>5. CASE Pops(m)
    <2>1. ring[m].count <= accepted[m]
      BY DEF RingOK, Holds
    <2> QED
      BY <1>1, <1>5, <2>1, PopOfRing DEF Pops
  <1>6. CASE Closes(m)
    BY <1>1, <1>6, CloseOfRing DEF Closes
  <1> QED
    BY <1>2, <1>3, <1>4, <1>5, <1>6 DEF RingMove
-----------------------------------------------------------------------------
(* The inductive invariant.                                                *)

(* QueueInv gives every fact MoveOfRing asks for. *)
LEMMA RingsMove ==
    ASSUME QueueInv, [Next]_vars, NEW m \in Media
    PROVE  /\ RingMove(m)
           /\ RingOK(m)' /\ pulled'[m] \in Nat
           /\ pulled'[m] + ring'[m].count <= accepted'[m]
           /\ ring'[m].count = 0 => pulled'[m] = accepted'[m]
           /\ ~Lossy => pulled'[m] + ring'[m].count = accepted'[m]
           /\ ring[m].eos => ring'[m].eos /\ accepted'[m] = accepted[m]
           /\ ring[m].eos /\ ring[m].count = 0 =>
                  ring'[m].count = 0 /\ pulled'[m] = pulled[m]
  <1>1. RingMove(m)
    BY StepMovesRings DEF QueueInv
  <1>2. RingOK(m) /\ pulled[m] \in Nat
    BY DEF QueueInv, TypeOK, RingHoldsNewest, RingOK
  <1>3. /\ pulled[m] + ring[m].count <= accepted[m]
        /\ ring[m].count = 0 => pulled[m] = accepted[m]
        /\ ~Lossy => pulled[m] + ring[m].count = accepted[m]
    BY DEF QueueInv, EmptyMeansPulled, NothingLost
  <1> QED
    BY <1>1, <1>2, <1>3, MoveOfRing

(* The variables that are indexed by media stay so. *)
LEMMA StepKeepsDomains ==
    ASSUME TypeOK, [Next]_vars
    PROVE  /\ ring' = [m \in Media |-> ring'[m]]
           /\ accepted' = [m \in Media |-> accepted'[m]]
           /\ pulled' = [m \in Media |-> pulled'[m]]
  <1>0. /\ ring = [m \in Media |-> ring[m]]
        /\ accepted = [m \in Media |-> accepted[m]]
        /\ pulled = [m \in Media |-> pulled[m]]
    BY DEF TypeOK
  <1>1. ASSUME NEW p \in Producers, NEW k \in Media,
               \/ PushStores(p, k) \/ PushRejected(p, k)
               \/ PushOverOldest(p, k) \/ PushWaits(p, k)
        PROVE  /\ ring' = [m \in Media |-> ring'[m]]
               /\ accepted' = [m \in Media |-> accepted'[m]]
               /\ pulled' = [m \in Media |-> pulled'[m]]
    BY <1>0, <1>1 DEF PushStores, PushRejected, PushOverOldest, PushWaits,
                      BeginPush, Accept, Reject
  <1>2. ASSUME NEW p \in Producers,
               PushResumes(p) \/ StopEncoding(p) \/ SpuriousWake(p)
        PROVE  /\ ring' = [m \in Media |-> ring'[m]]
               /\ accepted' = [m \in Media |-> accepted'[m]]
               /\ pulled' = [m \in Media |-> pulled'[m]]
    BY <1>0, <1>2 DEF PushResumes, Accept, Reject, StopEncoding, SpuriousWake
  <1>3. CASE MarkEos \/ Await \/ Terminated \/ UNCHANGED vars
    BY <1>0, <1>3 DEF MarkEos, Await, PullPacket, PullEmpty, PullEos, SinkTakes,
                      SinkRefuses, FinishSink, Terminated, vars
  <1> QED
    BY <1>1, <1>2, <1>3 DEF Next, Step, Encoder, Push

(* Where Await goes after one DrainOne. *)
LEMMA AfterDrainOneType ==
    ASSUME TypeOK, NEW done \in SUBSET Media
    PROVE  /\ AfterDrainOne(done) \in
                  [pc : {"pull", "finish"}, media : Media, done : SUBSET Media,
                   result : {"none", "kOk", "kEncodeFailed"}]
           /\ AfterDrainOne(done).result = drain.result
           /\ AfterDrainOne(done).done = done
           /\ AfterDrainOne(done).pc = "finish" <=> done = Media
           /\ drain.media \notin done \/ done # Media
                  => \/ AfterDrainOne(done).pc = "finish"
                     \/ AfterDrainOne(done).media \notin done
  <1>1. drain \in [pc : {"pull", "deliver", "finish", "returned"}, media : Media,
                   done : SUBSET Media, result : {"none", "kOk", "kEncodeFailed"}]
    BY DEF TypeOK
  <1>2. CASE done = Media
    BY <1>1, <1>2 DEF AfterDrainOne
  <1>3. CASE done # Media
    BY <1>1, <1>3 DEF AfterDrainOne, Other, Media
  <1> QED
    BY <1>2, <1>3

(* The variables that belong to the threads. *)
ThreadTypes ==
    /\ producer \in [Producers -> [pc : {"encoding", "waiting", "woken", "stopped"},
                                   media : Media]]
    /\ marking \in Media \cup {"done"}
    /\ drain \in [pc : {"pull", "deliver", "finish", "returned"}, media : Media,
                  done : SUBSET Media, result : {"none", "kOk", "kEncodeFailed"}]
    /\ offered \in [Media -> 0..MaxPackets]
    /\ delivered \in [Media -> Nat]
    /\ finished \in 0..1

(* What the threads keep for themselves keeps its type.                    *)
LEMMA ThreadTypesStep ==
    ASSUME QueueInv, [Next]_vars
    PROVE  ThreadTypes'
  <1>1. TypeOK /\ ThreadTypes /\ pulled \in [Media -> Nat]
    BY DEF QueueInv, TypeOK, ThreadTypes
  <1>2. MaxPackets \in Nat
    BY QueueAssumption
  <1>3. ASSUME NEW p \in Producers, NEW m \in Media, BeginPush(p, m)
        PROVE  offered' \in [Media -> 0..MaxPackets]
    BY <1>1, <1>2, <1>3 DEF BeginPush, ThreadTypes
  <1>4. ASSUME NEW p \in Producers, NEW m \in Media,
               PushStores(p, m) \/ PushRejected(p, m) \/ PushOverOldest(p, m)
        PROVE  ThreadTypes'
    BY <1>1, <1>3, <1>4 DEF PushStores, PushRejected, PushOverOldest, BeginPush,
                            Accept, Reject, ThreadTypes
  <1>5. ASSUME NEW p \in Producers, NEW m \in Media, PushWaits(p, m)
        PROVE  ThreadTypes'
    BY <1>1, <1>3, <1>5 DEF PushWaits, BeginPush, ThreadTypes
  <1>6. ASSUME NEW p \in Producers, PushResumes(p)
        PROVE  ThreadTypes'
    BY <1>1, <1>6 DEF PushResumes, Resume, Accept, Reject, ThreadTypes
  <1>7. ASSUME NEW p \in Producers, StopEncoding(p) \/ SpuriousWake(p)
        PROVE  ThreadTypes'
    BY <1>1, <1>7 DEF StopEncoding, SpuriousWake, ThreadTypes
  <1>8. CASE MarkEos
    BY <1>1, <1>8 DEF MarkEos, ThreadTypes, Media
  <1>9. CASE PullPacket
    BY <1>1, <1>9 DEF PullPacket, NotifyNotFull, ThreadTypes
  <1>10. CASE PullEmpty \/ PullEos \/ SinkTakes
    <2>1. /\ drain.done \in SUBSET Media
          /\ drain.done \cup {drain.media} \in SUBSET Media
      BY <1>1 DEF ThreadTypes
    <2>2. /\ AfterDrainOne(drain.done) \in
                 [pc : {"pull", "finish"}, media : Media, done : SUBSET Media,
                  result : {"none", "kOk", "kEncodeFailed"}]
          /\ AfterDrainOne(drain.done \cup {drain.media}) \in
                 [pc : {"pull", "finish"}, media : Media, done : SUBSET Media,
                  result : {"none", "kOk", "kEncodeFailed"}]
      BY <1>1, <2>1, AfterDrainOneType
    <2>3. drain' \in [pc : {"pull", "deliver", "finish", "returned"}, media : Media,
                      done : SUBSET Media, result : {"none", "kOk", "kEncodeFailed"}]
      BY <1>10, <2>2 DEF PullEmpty, PullEos, SinkTakes
    <2> QED
      BY <1>1, <1>10, <2>3 DEF PullEmpty, PullEos, SinkTakes, ThreadTypes
  <1>11. CASE SinkRefuses \/ FinishSink
    <2>1. finished = 0
      BY <1>11 DEF QueueInv, AwaitOkMeansDrained, SinkRefuses, FinishSink
    <2>2. drain' \in [pc : {"pull", "deliver", "finish", "returned"}, media : Media,
                      done : SUBSET Media, result : {"none", "kOk", "kEncodeFailed"}]
      BY <1>1, <1>11 DEF SinkRefuses, FinishSink, ThreadTypes
    <2>3. finished' = finished + 1
      BY <1>11 DEF SinkRefuses, FinishSink
    <2>4. /\ producer' = producer /\ marking' = marking /\ offered' = offered
          /\ delivered' = delivered
      BY <1>11 DEF SinkRefuses, FinishSink
    <2> QED
      BY <1>1, <2>1, <2>2, <2>3, <2>4 DEF ThreadTypes
  <1>12. CASE Terminated \/ UNCHANGED vars
    BY <1>1, <1>12 DEF Terminated, vars, ThreadTypes
  <1> QED
    BY <1>4, <1>5, <1>6, <1>7, <1>8, <1>9, <1>10, <1>11, <1>12
       DEF Next, Step, Encoder, Push, Await

(* So do all variables, the rings being typed by RingsMove.                *)
LEMMA TypeStep ==
    ASSUME QueueInv, [Next]_vars
    PROVE  TypeOK'
  <1>1. /\ ring' = [m \in Media |-> ring'[m]]
        /\ accepted' = [m \in Media |-> accepted'[m]]
        /\ pulled' = [m \in Media |-> pulled'[m]]
    BY StepKeepsDomains DEF QueueInv
  <1>2. \A m \in Media : /\ ring'[m] \in Rings /\ accepted'[m] \in Nat
                          /\ pulled'[m] \in Nat
    BY RingsMove DEF RingOK
  <1>3. /\ ring' \in [Media -> Rings] /\ accepted' \in [Media -> Nat]
        /\ pulled' \in [Media -> Nat]
    BY <1>1, <1>2
  <1>4. setup' \in Setups
    BY SetupKept DEF QueueInv, TypeOK
  <1> QED
    BY <1>3, <1>4, ThreadTypesStep DEF TypeOK, ThreadTypes

(* A pull wakes whoever waits on the ring, and nothing else makes room. *)
LEMMA WakeupStep ==
    ASSUME QueueInv, [Next]_vars
    PROVE  NoLostWakeup'
  <1>1. /\ TypeOK /\ ring \in [Media -> Rings]
        /\ producer \in [Producers -> [pc : {"encoding", "waiting", "woken", "stopped"},
                                       media : Media]]
        /\ drain.media \in Media /\ (marking # "done" => marking \in Media)
    BY DEF QueueInv, TypeOK
  <1>2. \A q \in Producers : producer[q].pc = "waiting" => Full(ring[producer[q].media])
    BY DEF QueueInv, NoLostWakeup
  <1>3. \A m \in Media : RingOK(m)
    BY DEF QueueInv, TypeOK, RingHoldsNewest, RingOK
  <1>4. ASSUME NEW p \in Producers, NEW m \in Media, PushStores(p, m)
        PROVE  NoLostWakeup'
    BY <1>1, <1>2, <1>4 DEF PushStores, Accept, NoLostWakeup
  <1>5. ASSUME NEW p \in Producers, NEW m \in Media, PushRejected(p, m)
        PROVE  NoLostWakeup'
    BY <1>2, <1>5 DEF PushRejected, Reject, NoLostWakeup
  <1>6. ASSUME NEW p \in Producers, NEW m \in Media, PushOverOldest(p, m)
        PROVE  NoLostWakeup'
    <2>1. /\ ring' = [ring EXCEPT ![m] = Stored(Vacated(@), accepted[m] + 1)]
          /\ producer' = producer /\ Full(ring[m])
      BY <1>6 DEF PushOverOldest
    <2>2. Overwrites(m)
      BY <1>1, <1>6, <2>1 DEF PushOverOldest, BeginPush, Overwrites, TypeOK
    <2>3. Full(ring'[m])
      BY <1>3, <2>1, <2>2, OverwriteOfRing DEF Full
    <2> QED
      BY <1>1, <1>2, <2>1, <2>3 DEF NoLostWakeup
  <1>7. ASSUME NEW p \in Producers, NEW m \in Media, PushWaits(p, m)
        PROVE  NoLostWakeup'
    BY <1>1, <1>2, <1>7 DEF PushWaits, NoLostWakeup
  <1>8. ASSUME NEW p \in Producers, PushResumes(p)
        PROVE  NoLostWakeup'
    BY <1>1, <1>2, <1>8 DEF PushResumes, Resume, Accept, Reject, NoLostWakeup
  <1>9. ASSUME NEW p \in Producers, StopEncoding(p) \/ SpuriousWake(p)
        PROVE  NoLostWakeup'
    BY <1>1, <1>2, <1>9 DEF StopEncoding, SpuriousWake, NoLostWakeup
  <1>10. CASE MarkEos
    <2>1. Full(Closed(ring[marking])) <=> Full(ring[marking])
      BY <1>1, <1>10, ClosedFields DEF MarkEos, Full
    <2> QED
      BY <1>1, <1>2, <1>10, <2>1 DEF MarkEos, NoLostWakeup
  <1>11. CASE PullPacket
    BY <1>1, <1>2, <1>11 DEF PullPacket, NotifyNotFull, NoLostWakeup
  <1>12. CASE PullEmpty \/ PullEos \/ SinkTakes \/ SinkRefuses \/ FinishSink
    BY <1>2, <1>12 DEF PullEmpty, PullEos, SinkTakes, SinkRefuses, FinishSink,
                       NoLostWakeup
  <1>13. CASE Terminated \/ UNCHANGED vars
    BY <1>2, <1>13 DEF Terminated, vars, NoLostWakeup
  <1> QED
    BY <1>4, <1>5, <1>6, <1>7, <1>8, <1>9, <1>10, <1>11, <1>12, <1>13
       DEF Next, Step, Encoder, Push, Await

(* How much of a ring was pulled and delivered. *)
LEMMA EmptyStep ==
    ASSUME QueueInv, [Next]_vars
    PROVE  EmptyMeansPulled' /\ RingHoldsNewest'
  BY RingsMove DEF EmptyMeansPulled, RingHoldsNewest, RingOK

(* What is pulled goes to the sink, and Await's locals keep up with it. *)
LEMMA AwaitStep ==
    ASSUME QueueInv, [Next]_vars
    PROVE  NothingLost' /\ AwaitOkMeansDrained' /\ AwaitIsConsistent'
  <1> DEFINE Delivery(m) == pulled[m] # delivered[m] => InHand(m)
  <1>1. /\ drain \in [pc : {"pull", "deliver", "finish", "returned"}, media : Media,
                      done : SUBSET Media, result : {"none", "kOk", "kEncodeFailed"}]
        /\ delivered \in [Media -> Nat] /\ pulled \in [Media -> Nat]
        /\ finished \in 0..1 /\ TypeOK
    BY DEF QueueInv, TypeOK
  <1>2. /\ \A m \in Media : Delivery(m)
        /\ AwaitOkMeansDrained /\ AwaitIsConsistent
    BY DEF QueueInv, NothingLost
  <1>3. \A m \in Media : ~Lossy => pulled'[m] + ring'[m].count = accepted'[m]
    BY RingsMove
  <1>4. \A m \in drain.done : /\ ring'[m].eos /\ ring'[m].count = 0
                               /\ pulled'[m] = pulled[m]
                               /\ accepted'[m] = accepted[m]
    BY <1>1, <1>2, RingsMove DEF AwaitIsConsistent
  <1>5. SUFFICES /\ \A m \in Media : Delivery(m)'
                 /\ AwaitOkMeansDrained' /\ AwaitIsConsistent'
    BY <1>3, SetupKept DEF NothingLost
  <1>6. ASSUME drain' = drain, delivered' = delivered, finished' = finished,
               pulled' = pulled
        PROVE  /\ \A m \in Media : Delivery(m)'
               /\ AwaitOkMeansDrained' /\ AwaitIsConsistent'
    <2>1. \A m \in Media : Delivery(m)'
      BY <1>2, <1>6 DEF InHand
    <2>2. AwaitIsConsistent'
      BY <1>2, <1>4, <1>6 DEF AwaitIsConsistent
    <2>3. AwaitOkMeansDrained'
      BY <1>2, <1>4, <1>6 DEF AwaitOkMeansDrained, AwaitIsConsistent
    <2> QED
      BY <2>1, <2>2, <2>3
  <1>7. ASSUME NEW q \in Producers, Encoder(q) \/ SpuriousWake(q)
        PROVE  drain' = drain /\ delivered' = delivered /\ finished' = finished
                   /\ pulled' = pulled
    BY <1>7 DEF Encoder, Push, PushStores, PushRejected, PushOverOldest, PushWaits,
                BeginPush, PushResumes, StopEncoding, SpuriousWake
  <1>8. CASE MarkEos \/ Terminated \/ UNCHANGED vars
    BY <1>6, <1>8 DEF MarkEos, Terminated, vars
  <1>9. CASE PullPacket
    <2>1. /\ drain.pc = "pull" /\ drain' = [drain EXCEPT !.pc = "deliver"]
          /\ pulled' = [pulled EXCEPT ![drain.media] = Oldest(ring[drain.media])]
          /\ delivered' = delivered /\ finished' = finished
      BY <1>9 DEF PullPacket
    <2>2. /\ drain'.pc = "deliver" /\ drain'.media = drain.media
          /\ drain'.done = drain.done /\ drain'.result = "none"
          /\ drain.media \notin drain.done
      BY <1>1, <1>2, <2>1 DEF AwaitIsConsistent
    <2>3. \A m \in Media : Delivery(m)'
      BY <1>1, <1>2, <2>1, <2>2 DEF InHand, AwaitIsConsistent
    <2>4. AwaitIsConsistent'
      BY <1>1, <1>2, <1>4, <2>1, <2>2 DEF AwaitIsConsistent
    <2>5. AwaitOkMeansDrained'
      BY <1>2, <2>1, <2>2 DEF AwaitOkMeansDrained
    <2> QED
      BY <2>3, <2>4, <2>5
  <1>10. CASE PullEmpty \/ PullEos \/ SinkTakes
    <2> DEFINE done == IF PullEos THEN drain.done \cup {drain.media} ELSE drain.done
    <2>1. /\ drain' = AfterDrainOne(done) /\ done \in SUBSET Media
          /\ drain.media \notin drain.done /\ drain.result = "none" /\ finished = 0
          /\ finished' = finished /\ pulled' = pulled /\ drain.media \in Media
      <3>1. CASE PullEos
        BY <1>1, <1>2, <3>1 DEF PullEos, AwaitIsConsistent, AwaitOkMeansDrained
      <3>2. CASE ~PullEos
        BY <1>1, <1>2, <1>10, <3>2 DEF PullEmpty, SinkTakes, AwaitIsConsistent,
                                       AwaitOkMeansDrained
      <3> QED
        BY <3>1, <3>2
    <2>2. /\ drain'.pc \in {"pull", "finish"} /\ drain'.result = "none"
          /\ drain'.done = done /\ (drain'.pc = "finish" => done = Media)
          /\ (drain'.pc = "pull" => drain'.media \notin done)
      <3>1. drain.media \notin done \/ done # Media => 
                \/ AfterDrainOne(done).pc = "finish"
                \/ AfterDrainOne(done).media \notin done
        BY <1>1, <2>1, AfterDrainOneType
      <3> QED
        BY <1>1, <2>1, <3>1, AfterDrainOneType
    <2>3. \A m \in Media : pulled'[m] = delivered'[m]
      <3>1. CASE PullEmpty \/ PullEos
        <4>1. drain.pc = "pull" /\ delivered' = delivered
          BY <3>1 DEF PullEmpty, PullEos
        <4> QED
          BY <1>2, <2>1, <4>1 DEF InHand
      <3>2. CASE SinkTakes
        <4>1. delivered' = [delivered EXCEPT ![drain.media] = pulled[drain.media]]
          BY <3>2 DEF SinkTakes
        <4> QED
          BY <1>1, <1>2, <2>1, <4>1 DEF InHand
      <3> QED
        BY <1>10, <3>1, <3>2
    <2>4. \A m \in done : ring'[m].eos /\ ring'[m].count = 0
      <3>1. CASE PullEos
        <4>1. ring' = ring /\ ring[drain.media].eos /\ ring[drain.media].count = 0
          BY <3>1 DEF PullEos
        <4> QED
          BY <1>4, <3>1, <4>1
      <3>2. CASE ~PullEos
        BY <1>4, <3>2
      <3> QED
        BY <3>1, <3>2
    <2> HIDE DEF done
    <2>5. AwaitIsConsistent'
      BY <2>1, <2>2, <2>3, <2>4 DEF AwaitIsConsistent
    <2>6. AwaitOkMeansDrained'
      BY <2>1, <2>2 DEF AwaitOkMeansDrained
    <2> QED
      BY <2>3, <2>5, <2>6
  <1>11. CASE SinkRefuses
    <2>1. /\ drain' = [drain EXCEPT !.pc = "returned", !.result = "kEncodeFailed"]
          /\ drain.pc = "deliver" /\ finished' = finished + 1
          /\ pulled' = pulled /\ delivered' = delivered
      BY <1>11 DEF SinkRefuses
    <2>2. /\ drain'.pc = "returned" /\ drain'.result = "kEncodeFailed"
          /\ drain'.done = drain.done /\ drain'.media = drain.media
          /\ finished = 0
      BY <1>1, <1>2, <2>1 DEF AwaitOkMeansDrained
    <2>3. \A m \in Media : Delivery(m)'
      BY <1>2, <2>1, <2>2 DEF InHand
    <2>4. AwaitIsConsistent'
      BY <1>2, <1>4, <2>1, <2>2 DEF AwaitIsConsistent
    <2>5. AwaitOkMeansDrained'
      BY <2>1, <2>2 DEF AwaitOkMeansDrained
    <2> QED
      BY <2>3, <2>4, <2>5
  <1>12. CASE FinishSink
    <2>1. PICK st \in {"kOk", "kEncodeFailed"} :
              drain' = [drain EXCEPT !.pc = "returned", !.result = st]
      BY <1>12 DEF FinishSink
    <2>2. /\ drain.pc = "finish" /\ finished' = finished + 1
          /\ pulled' = pulled /\ delivered' = delivered /\ accepted' = accepted
      BY <1>12 DEF FinishSink
    <2>3. /\ drain'.pc = "returned" /\ drain'.result = st
          /\ drain'.done = Media /\ drain.done = Media /\ finished = 0
      BY <1>1, <1>2, <2>1, <2>2 DEF AwaitIsConsistent, AwaitOkMeansDrained
    <2>4. \A m \in Media : /\ ring'[m].eos /\ ring'[m].count = 0
                            /\ pulled'[m] = delivered'[m]
      BY <1>2, <1>4, <2>2, <2>3 DEF AwaitIsConsistent
    <2>5. \A m \in Media : pulled'[m] = accepted'[m]
      BY <2>4, RingsMove
    <2>6. AwaitIsConsistent'
      BY <2>3, <2>4 DEF AwaitIsConsistent
    <2>7. AwaitOkMeansDrained'
      BY <2>2, <2>3, <2>4, <2>5 DEF AwaitOkMeansDrained
    <2> QED
      BY <2>4, <2>6, <2>7
  <1> QED
    BY <1>6, <1>7, <1>8, <1>9, <1>10, <1>11, <1>12 DEF Next, Step, Await

(* The empty rings satisfy the invariant. *)
LEMMA QueueInit == Init => QueueInv
  <1> SUFFICES ASSUME Init
               PROVE  QueueInv
    OBVIOUS
  <1>1. Capacity \in Nat \ {0} /\ MaxPackets \in Nat /\ 0 \in Slots
    BY CapacityPositive, QueueAssumption DEF Slots
  <1>2. EmptyRing \in Rings
    BY <1>1 DEF EmptyRing, Rings, NoPkt
  <1>3. Holds(EmptyRing, 0)
    <2>1. Masked(0 + 0) = 0
      BY <1>1, SlotFromHead DEF Slots
    <2> QED
      BY <2>1 DEF EmptyRing, Holds, InOrder
  <1>4. TypeOK
    BY <1>1, <1>2 DEF Init, TypeOK, Media
  <1>5. RingHoldsNewest
    BY <1>3 DEF Init, RingHoldsNewest
  <1>6. NothingLost /\ EmptyMeansPulled
    BY DEF Init, NothingLost, EmptyMeansPulled, EmptyRing
  <1>7. AwaitOkMeansDrained /\ AwaitIsConsistent /\ NoLostWakeup
    BY DEF Init, AwaitOkMeansDrained, AwaitIsConsistent, NoLostWakeup
  <1> QED
    BY <1>4, <1>5, <1>6, <1>7 DEF QueueInv

(* The conjunction of the queue's invariants holds in every state: nothing *)
(* accepted is lost, Await returns kOk only with both rings drained into   *)
(* the sink, and no Push sleeps beside a free slot.                        *)
THEOREM QueueIsCorrect == Spec => []QueueInv
  <1>1. ASSUME QueueInv, [Next]_vars
        PROVE  QueueInv'
    BY <1>1, TypeStep, EmptyStep, AwaitStep, WakeupStep DEF QueueInv
  <1> QED
    BY <1>1, QueueInit, PTL DEF Spec

(* Every variable keeps its type. *)
THEOREM TypeCorrect == Spec => []TypeOK
  <1>1. QueueInv => TypeOK
    BY DEF QueueInv
  <1> QED
    BY <1>1, QueueIsCorrect, PTL

(* Slots, indices and count of a ring never disagree: it holds the newest  *)
(* packets it accepted, in order.                                          *)
THEOREM RingsHoldNewest == Spec => []RingHoldsNewest
  <1>1. QueueInv => RingHoldsNewest
    BY DEF QueueInv
  <1> QED
    BY <1>1, QueueIsCorrect, PTL

(* Unless the policy is kLatest, what a ring accepted was pulled or is     *)
(* still there, and what was pulled reached the sink.                      *)
THEOREM NoPacketIsLost == Spec => []NothingLost
  <1>1. QueueInv => NothingLost
    BY DEF QueueInv
  <1> QED
    BY <1>1, QueueIsCorrect, PTL

(* When Await returns kOk the sink is finished, once, and has every packet. *)
THEOREM AwaitDrains == Spec => []AwaitOkMeansDrained
  <1>1. QueueInv => AwaitOkMeansDrained
    BY DEF QueueInv
  <1> QED
    BY <1>1, QueueIsCorrect, PTL

(* No pop leaves a producer asleep beside the slot it freed. *)
THEOREM WakeupsAreNotLost == Spec => []NoLostWakeup
  <1>1. QueueInv => NoLostWakeup
    BY DEF QueueInv
  <1> QED
    BY <1>1, QueueIsCorrect, PTL

(* The safety part of PipelineTerminates: a Push that sleeps on not_full_  *)
(* sleeps on a full ring, and unless the sink has failed Await still runs  *)
(* and has that ring on its round, so that a pop of it, and the wakeup, is *)
(* yet to come.  The exception is the error return of Await, which leaves  *)
(* the queue as it is (packet_queue.cc, Ring::Push and PacketQueue::Await).*)
SleepersAreOnTheRound ==
    \A p \in Producers :
        producer[p].pc = "waiting" =>
            /\ ring[producer[p].media].count = Capacity
            /\ \/ drain.result = "kEncodeFailed"
               \/ /\ drain.pc \in {"pull", "deliver"}
                  /\ producer[p].media \notin drain.done

(* A sleeping Push waits for a consumer that is still there to wake it.    *)
THEOREM SleepersAreServed == Spec => []SleepersAreOnTheRound
  <1>1. ASSUME QueueInv, NEW p \in Producers, producer[p].pc = "waiting"
        PROVE  /\ ring[producer[p].media].count = Capacity
               /\ \/ drain.result = "kEncodeFailed"
                  \/ /\ drain.pc \in {"pull", "deliver"}
                     /\ producer[p].media \notin drain.done
    <2> DEFINE m == producer[p].media
    <2>1. m \in Media
      BY <1>1 DEF QueueInv, TypeOK
    <2>2. ring[m].count = Capacity
      BY <1>1 DEF QueueInv, NoLostWakeup, Full
    <2>3. ring[m].count # 0
      BY <2>2, CapacityPositive
    <2>4. m \notin drain.done
      BY <1>1, <2>3 DEF QueueInv, AwaitIsConsistent
    <2>5. drain.pc # "finish" /\ drain.result # "kOk"
      BY <1>1, <2>1, <2>4 DEF QueueInv, AwaitIsConsistent
    <2>6. drain.pc \in {"pull", "deliver"} \/ drain.result = "kEncodeFailed"
      BY <1>1, <2>5 DEF QueueInv, TypeOK, AwaitIsConsistent
    <2> QED
      BY <2>2, <2>4, <2>6
  <1>2. QueueInv => SleepersAreOnTheRound
    BY <1>1 DEF SleepersAreOnTheRound
  <1> QED
    BY <1>2, QueueIsCorrect, PTL

(* Each ring is a FIFO queue: its initial state is one of MediaFifo, and   *)
(* every step of the system is a step or a stutter of MediaFifo.           *)
THEOREM RingsAreFifos == Spec => QueueIsFifo
  <1>1. ASSUME Init, NEW m \in Media
        PROVE  Fifo(m)!Init
    BY <1>1 DEF Init, Fifo!Init, EmptyRing, Lossy, Policy
  <1>2. ASSUME QueueInv, [Next]_vars, NEW m \in Media
        PROVE  [Fifo(m)!Next]_(Fifo(m)!vars)
    <2>1. RingMove(m) /\ RingOK(m)
      BY <1>2, RingsMove DEF QueueInv, TypeOK, RingHoldsNewest, RingOK
    <2>2. /\ ring[m].count \in Nat /\ accepted[m] \in Nat /\ Capacity \in Nat
          /\ ring[m].count <= Capacity
          /\ Full(ring[m]) <=> ring[m].count = Capacity
      BY <2>1, CapacityPositive DEF RingOK, Rings, Full
    <2>0. Lossy' = Lossy
      BY <1>2, SetupKept
    <2>3. CASE Idles(m)
      BY <2>0, <2>3 DEF Idles, Fifo!vars
    <2>4. CASE Stores(m)
      BY <2>0, <2>1, <2>2, <2>4, StoreOfRing DEF Stores, Fifo!Next, Fifo!Put
    <2>5. CASE Overwrites(m)
      BY <2>0, <2>1, <2>2, <2>5, OverwriteOfRing
         DEF Overwrites, Fifo!Next, Fifo!PutOverOldest
    <2>6. CASE Pops(m)
      BY <2>0, <2>1, <2>2, <2>6, PopOfRing DEF Pops, Fifo!Next, Fifo!Take
    <2>7. CASE Closes(m)
      BY <2>0, <2>1, <2>2, <2>7, CloseOfRing DEF Closes, Fifo!Next, Fifo!Close
    <2> QED
      BY <2>1, <2>3, <2>4, <2>5, <2>6, <2>7 DEF RingMove
  <1>3. Init => \A m \in Media : Fifo(m)!Init
    BY <1>1
  <1>4. QueueInv /\ [Next]_vars
            => [\A m \in Media : [Fifo(m)!Next]_(Fifo(m)!vars)]_vars
    BY <1>2
  <1> QED
    BY <1>3, <1>4, QueueIsCorrect, PTL DEF Spec, QueueIsFifo
=============================================================================
